---- MODULE Spec2Model ----
(***************************************************************************)
(* A model of youmubot-osu's discord command module                        *)
(* (src/youmubot-osu/src/discord/mod.rs).                                  *)
(*                                                                         *)
(*  - the `save` account-linking protocol (mod.rs 218-328) and `add_user`  *)
(*    (mod.rs 366-378), as a state machine per invocation ("attempt");     *)
(*  - the beatmap reference resolver `load_beatmap` (mod.rs 511-561), as a *)
(*    state machine per call ("task"), one step per await;                 *)
(*  - the user reference resolver `to_user_id_query` (mod.rs 395-411);     *)
(*  - `calculate_weighted_map_length` (mod.rs 814-835), one step per       *)
(*    completed lookup, in any order;                                      *)
(*  - `clean_cache` (mod.rs 754-763) over the two caches it clears;        *)
(*  - `recent` (mod.rs 439-494), `top` (mod.rs 689-747) and `check`        *)
(*    (mod.rs 620-681), one step per await or group of awaits.             *)
(*                                                                         *)
(* The osu! API client, the SQL tables behind env.saved_users and          *)
(* env.last_beatmaps, the caches env.beatmaps and env.oppai and the chat   *)
(* platform are not part of the module; they are modelled by the           *)
(* interface the module uses, and every await that returns a Result may    *)
(* fail.                                                                   *)
(***************************************************************************)
EXTENDS Integers, Sequences, FiniteSets, TLC

(***************************************************************************)
(* Bounds of the model.                                                    *)
(***************************************************************************)
\* Clock ticks per collector timeout: the clock advances by
\* TIMEOUT_SECS \div TicksPerWindow seconds at a time.
TicksPerWindow == 3
\* Reactions one invocation of `save` collects before the model stops
\* delivering more to it.
MaxSignals == 2

\* Longest list of scores handed to calculate_weighted_map_length.
MaxScores == 3
\* Largest n of the `#n` given to `recent` and `top`.
MaxNth == 3

\* Chart downloads per beatmap the model follows.
MaxDownloads == 2

(***************************************************************************)
(* Program constants.                                                      *)
(***************************************************************************)
\* .timeout(std::time::Duration::from_secs(300))
TIMEOUT_SECS == 300
\* .limit(1) / .take(1) in save::check
RECENT_LIMIT == 1
\* .limit(50) in recent, .limit(100) in top
RECENT_LIST_LIMIT == 50
TOP_LIST_LIMIT == 100

TickSecs == TIMEOUT_SECS \div TicksPerWindow

\* for mode in &[Mode::Std, Mode::Taiko, Mode::Catch, Mode::Mania]
ModeOrder == <<"Std", "Taiko", "Catch", "Mania">>
Modes == {ModeOrder[i] : i \in 1..Len(ModeOrder)}

(***************************************************************************)
(* The environment of `save`.                                              *)
(***************************************************************************)
\* Two concurrent invocations of `save` at most.
Attempts == {1, 2}
\* Chat identities (msg.author.id).
Identities == {"alice", "bob"}
\* Beatmap ids.
BeatmapIds == {1, 2}
\* osu! accounts known to the remote service; any other name is unknown.
Accounts == {1, 2, 3, 4, 5}
NoAccount == 0

\* The remote service's answer to user_best(account, mode): the beatmap ids
\* of the account's best scores in that mode.  Account 1 plays Std, account 2
\* Taiko and Mania, account 3 Catch and Mania, account 4 Mania only, account
\* 5 has no plays.
user_best(u, mode) ==
    CASE u = 1 /\ mode = "Std" -> {1, 2}
      [] u = 2 /\ mode = "Taiko" -> {1}
      [] u = 2 /\ mode = "Mania" -> {2}
      [] u = 3 /\ mode = "Catch" -> {2}
      [] u = 3 /\ mode = "Mania" -> {1}
      [] u = 4 /\ mode = "Mania" -> {1, 2}
      [] OTHER -> {}

NoLink == [id |-> 0, failures |-> 0]
\* A link left by an earlier run, with a failure count the announcer raised.
OldLink == [id |-> 9, failures |-> 2]
NoPlay == [map |-> 0, mode |-> "none"]
NoChallenge == [map |-> 0, mode |-> "none"]

VARIABLES
    pc,         \* pc[a]: where invocation a of `save` stands
    author,     \* author[a]: msg.author.id
    cand,       \* cand[a]: u.id, the account resolved at the start
    challenge,  \* challenge[a]: (score.beatmap_id, mode) of find_score
    queried,    \* queried[a]: the modes find_score asked user_best for, in order
    timer,      \* timer[a]: seconds since the current ReactionCollector was built
    elapsed,    \* elapsed[a]: seconds since the wait for the reaction began
    nsig,       \* nsig[a]: reactions the collectors of a have yielded
    saved,      \* env.saved_users: identity -> [id, failures]
    saved0,     \* env.saved_users before any invocation
    writes,     \* the new_user calls the store applied, in order
    confirmed,  \* the invocations whose loop ended with `break true`, in order
    recent,     \* recent[u][m]: beatmap of u's most recent play in mode m (0: none)
    lastMode    \* lastMode[u]: the mode of u's most recent play ("none": no play)

saveVars == <<pc, author, cand, challenge, queried, timer, elapsed, nsig,
              saved, saved0, writes, confirmed, recent, lastMode>>

(***************************************************************************)
(* find_score (mod.rs 230-240): ask user_best mode by mode, in ModeOrder,  *)
(* and stop at the first mode with a score.  failAt is the index of the    *)
(* query that fails with a transport error (0: none does).                 *)
(***************************************************************************)
RECURSIVE find_score_from(_, _, _)
find_score_from(u, i, failAt) ==
    IF i > Len(ModeOrder) THEN [kind |-> "none", mode |-> "none", asked |-> i - 1]
    ELSE IF failAt = i THEN [kind |-> "err", mode |-> "none", asked |-> i]
    ELSE IF user_best(u, ModeOrder[i]) # {}
         THEN [kind |-> "some", mode |-> ModeOrder[i], asked |-> i]
         ELSE find_score_from(u, i + 1, failAt)

\* find_score walking the modes from the last to the first.
RECURSIVE find_score_reversed_from(_, _, _)
find_score_reversed_from(u, i, failAt) ==
    LET mode == ModeOrder[Len(ModeOrder) + 1 - i]
    IN  IF i > Len(ModeOrder) THEN [kind |-> "none", mode |-> "none", asked |-> i - 1]
        ELSE IF failAt = i THEN [kind |-> "err", mode |-> "none", asked |-> i]
        ELSE IF user_best(u, mode) # {}
             THEN [kind |-> "some", mode |-> mode, asked |-> i]
             ELSE find_score_reversed_from(u, i + 1, failAt)

find_score_reversed(u, failAt) == find_score_reversed_from(u, 1, failAt)

find_score(u, failAt) == find_score_from(u, 1, failAt)

\* client.user_recent(UserID::ID(u), |f| f.mode(mode).limit(n)): the
\* account's latest plays in that mode, newest first.  The model keeps the
\* newest one of each mode.
user_recent(u, mode, n) ==
    IF recent[u][mode] = 0 \/ n < 1 THEN <<>> ELSE <<[beatmap_id |-> recent[u][mode]]>>

\* save::check (mod.rs 253-260).
check(u, map_id) ==
    LET s == user_recent(u, "Std", RECENT_LIMIT)
    IN  \E i \in 1..Len(s) : i <= RECENT_LIMIT /\ s[i].beatmap_id = map_id

\* add_user leaving the failure count of an earlier link in place.
add_user_keeps_failures(target, user) ==
    [user_id |-> target, id |-> user, failures |-> saved[target].failures]

\* add_user (mod.rs 366-378): the row handed to saved_users.new_user.
add_user(target, user) == [user_id |-> target, id |-> user, failures |-> 0]

\* OsuSavedUsers::new_user: insert the row, replacing the identity's old one.
new_user(table, u) ==
    [table EXCEPT ![u.user_id] = [id |-> u.id, failures |-> u.failures]]

(***************************************************************************)
(* The steps of one invocation a of `save`.                                *)
(***************************************************************************)
SaveInit ==
    /\ pc = [a \in Attempts |-> "idle"]
    /\ author = [a \in Attempts |-> "alice"]
    /\ cand = [a \in Attempts |-> NoAccount]
    /\ challenge = [a \in Attempts |-> NoChallenge]
    /\ queried = [a \in Attempts |-> <<>>]
    /\ timer = [a \in Attempts |-> 0]
    /\ elapsed = [a \in Attempts |-> 0]
    /\ nsig = [a \in Attempts |-> 0]
    /\ saved = [i \in Identities |-> IF i = "alice" THEN OldLink ELSE NoLink]
    /\ saved0 = saved
    /\ writes = <<>>
    /\ confirmed = <<>>
    /\ recent = [u \in Accounts |-> [m \in Modes |-> 0]]
    /\ lastMode = [u \in Accounts |-> "none"]

\* mod.rs 218-251: resolve the account named in the argument (one of
\* `names`), then pick the challenge.
InvokeWith(a, names) ==
    /\ pc[a] = "idle"
    /\ \E who \in Identities, name \in names,
          userErr \in BOOLEAN, failAt \in 0..Len(ModeOrder) :
         LET r == find_score(name, failAt)
             exit == IF userErr THEN "err_user"
                     ELSE IF name = NoAccount THEN "notfound"
                     ELSE IF r.kind = "err" THEN "err_best"
                     ELSE IF r.kind = "none" THEN "noplays"
                     ELSE "offered"
             found == ~userErr /\ name # NoAccount
         IN  /\ author' = [author EXCEPT ![a] = who]
             /\ cand' = [cand EXCEPT ![a] = IF found THEN name ELSE NoAccount]
             /\ queried' = [queried EXCEPT ![a] =
                              IF found THEN SubSeq(ModeOrder, 1, r.asked) ELSE <<>>]
             /\ pc' = [pc EXCEPT ![a] = exit]
             /\ IF exit = "offered"
                THEN \E b \in user_best(name, r.mode) :
                       challenge' = [challenge EXCEPT ![a] = [map |-> b, mode |-> r.mode]]
                ELSE UNCHANGED challenge
    /\ UNCHANGED <<timer, elapsed, nsig, saved, saved0, writes, confirmed,
                   recent, lastMode>>

Invoke(a) == InvokeWith(a, Accounts \cup {NoAccount})

\* mod.rs 262-293: post the challenge, fetch and rate the beatmap, add the
\* bot's own reaction.  Any of these awaits may fail.
Post(a) ==
    /\ pc[a] = "offered"
    /\ \E ok \in BOOLEAN :
         pc' = [pc EXCEPT ![a] = IF ok THEN "awaiting" ELSE "err_post"]
    /\ timer' = [timer EXCEPT ![a] = 0]
    /\ elapsed' = [elapsed EXCEPT ![a] = 0]
    /\ UNCHANGED <<author, cand, challenge, queried, nsig, saved, saved0, writes,
                   confirmed, recent, lastMode>>

\* Signal that looks at the latest play again after a failed fetch.
SignalRetries(a) ==
    /\ pc[a] \in {"awaiting", "err_check"}
    /\ timer[a] < TIMEOUT_SECS
    /\ nsig[a] < MaxSignals
    /\ \E fetchOk \in BOOLEAN, deleteOk \in BOOLEAN :
         LET res == IF ~fetchOk THEN "err_check"
                    ELSE IF check(cand[a], challenge[a].map) THEN "confirmed"
                    ELSE IF ~deleteOk THEN "err_delete"
                    ELSE "awaiting"
         IN  /\ pc' = [pc EXCEPT ![a] = res]
             /\ confirmed' = IF res = "confirmed" THEN Append(confirmed, a)
                             ELSE confirmed
    /\ nsig' = [nsig EXCEPT ![a] = @ + 1]
    /\ timer' = [timer EXCEPT ![a] = 0]
    /\ UNCHANGED <<author, cand, challenge, queried, elapsed, saved, saved0,
                   writes, recent, lastMode>>

\* mod.rs 294-307: the collector yields the author's reaction; the latest
\* play is fetched and compared.  On a mismatch the reaction is deleted and
\* the loop builds a new collector, with a new timeout.
Signal(a) ==
    /\ pc[a] = "awaiting"
    /\ timer[a] < TIMEOUT_SECS
    /\ nsig[a] < MaxSignals
    /\ \E fetchOk \in BOOLEAN, deleteOk \in BOOLEAN :
         LET res == IF ~fetchOk THEN "err_check"
                    ELSE IF check(cand[a], challenge[a].map) THEN "confirmed"
                    ELSE IF ~deleteOk THEN "err_delete"
                    ELSE "awaiting"
         IN  /\ pc' = [pc EXCEPT ![a] = res]
             /\ confirmed' = IF res = "confirmed" THEN Append(confirmed, a)
                             ELSE confirmed
    /\ nsig' = [nsig EXCEPT ![a] = @ + 1]
    /\ timer' = [timer EXCEPT ![a] = 0]
    /\ UNCHANGED <<author, cand, challenge, queried, elapsed, saved, saved0,
                   writes, recent, lastMode>>

\* Timeout without the `if !completed` return: the link is written anyway.
TimeoutLinks(a) ==
    /\ pc[a] = "awaiting"
    /\ timer[a] >= TIMEOUT_SECS
    /\ pc' = [pc EXCEPT ![a] = "expired"]
    /\ saved' = new_user(saved, add_user(author[a], cand[a]))
    /\ writes' = Append(writes, [by |-> a, row |-> add_user(author[a], cand[a])])
    /\ UNCHANGED <<author, cand, challenge, queried, timer, elapsed, nsig, saved0,
                   confirmed, recent, lastMode>>

\* mod.rs 308-315: the collector timed out; drop the bot's reaction, return.
Timeout(a) ==
    /\ pc[a] = "awaiting"
    /\ timer[a] >= TIMEOUT_SECS
    /\ pc' = [pc EXCEPT ![a] = "expired"]
    /\ UNCHANGED <<author, cand, challenge, queried, timer, elapsed, nsig, saved,
                   saved0, writes, confirmed, recent, lastMode>>

\* AddUser that keeps the link an earlier invocation wrote for the identity.
AddUserIfAbsent(a) ==
    /\ pc[a] = "confirmed"
    /\ \E storeOk \in BOOLEAN :
         LET u == add_user(author[a], cand[a])
             taken == \E i \in 1..Len(writes) : writes[i].row.user_id = author[a]
         IN  IF storeOk
             THEN /\ saved' = IF taken THEN saved ELSE new_user(saved, u)
                  /\ writes' = IF taken THEN writes
                                ELSE Append(writes, [by |-> a, row |-> u])
                  /\ pc' = [pc EXCEPT ![a] = "done"]
             ELSE /\ pc' = [pc EXCEPT ![a] = "err_store"]
                  /\ UNCHANGED <<saved, writes>>
    /\ UNCHANGED <<author, cand, challenge, queried, timer, elapsed, nsig, saved0,
                   confirmed, recent, lastMode>>

\* mod.rs 317-327: add_user, then the closing reply.
AddUser(a) ==
    /\ pc[a] = "confirmed"
    /\ \E storeOk \in BOOLEAN :
         LET u == add_user(author[a], cand[a])
         IN  IF storeOk
             THEN /\ saved' = new_user(saved, u)
                  /\ writes' = Append(writes, [by |-> a, row |-> u])
                  /\ pc' = [pc EXCEPT ![a] = "done"]
             ELSE /\ pc' = [pc EXCEPT ![a] = "err_store"]
                  /\ UNCHANGED <<saved, writes>>
    /\ UNCHANGED <<author, cand, challenge, queried, timer, elapsed, nsig, saved0,
                   confirmed, recent, lastMode>>

\* Time passes while some collector waits; a collector at its timeout ends
\* before the clock moves on.
Tick ==
    /\ \E a \in Attempts : pc[a] = "awaiting"
    /\ \A a \in Attempts : pc[a] = "awaiting" => timer[a] < TIMEOUT_SECS
    /\ timer' = [a \in Attempts |->
                   IF pc[a] = "awaiting" THEN timer[a] + TickSecs ELSE timer[a]]
    /\ elapsed' = [a \in Attempts |->
                     IF pc[a] = "awaiting" THEN elapsed[a] + TickSecs ELSE elapsed[a]]
    /\ UNCHANGED <<pc, author, cand, challenge, queried, nsig, saved, saved0,
                   writes, confirmed, recent, lastMode>>

\* The account owner submits a play of beatmap b in mode m.  Only plays on
\* an account some running invocation is challenging are tracked: `save`
\* reads an account's plays in Signal alone.
Play(u, m, b) ==
    /\ \E a \in Attempts : cand[a] = u /\ pc[a] = "awaiting"
    /\ recent' = [recent EXCEPT ![u][m] = b]
    /\ lastMode' = [lastMode EXCEPT ![u] = m]
    /\ UNCHANGED <<pc, author, cand, challenge, queried, timer, elapsed, nsig,
                   saved, saved0, writes, confirmed>>

(***************************************************************************)
(* load_beatmap (mod.rs 511-561).                                          *)
(*                                                                         *)
(* A text is modelled by the short links SHORT_LINK_REGEX finds in it, in  *)
(* order; a short link by its named groups: the beatmap id, the mode tag   *)
(* and the mods token ("none": the group did not take part in the match).  *)
(***************************************************************************)
\* Concurrent calls of load_beatmap.
LbTasks == {1, 2}
\* msg.channel_id
Channels == {"c1", "c2"}

NoCaps == [id |-> 0, mode |-> "none", mods |-> "none"]
LinkA == [id |-> 1, mode |-> "none", mods |-> "none"]
LinkB == [id |-> 2, mode |-> "taiko", mods |-> "HD"]
Links == {LinkA, LinkB}
\* Texts: without a short link, or with one.
Texts == {<<>>} \cup {<<l>> : l \in Links}
\* e.description is an Option: None, or Some(text).
NoDesc == <<>>
Some(text) == <<text>>

\* The embeds of a replied-to message: a single embed has up to two fields,
\* each of two embeds up to one.
FieldLists == {<<>>} \cup {<<f>> : f \in Texts}
                     \cup {<<f, g>> : f \in Texts, g \in {<<l>> : l \in Links}}
Embeds == [description : {NoDesc} \cup {Some(d) : d \in Texts}, fields : FieldLists]
SmallEmbeds == [description : {NoDesc} \cup {Some(<<l>>) : l \in Links},
                fields : {<<>>} \cup {<<<<l>>>> : l \in Links}]
EmbedLists == {<<>>} \cup {<<e>> : e \in Embeds}
                     \cup {<<e, f>> : e \in SmallEmbeds, f \in SmallEmbeds}

\* msg.referenced_message: None, or the replied-to message.
NoReply == [replied |-> FALSE, content |-> <<>>, embeds |-> <<>>]
Messages == {NoReply} \cup [replied : {TRUE}, content : Texts, embeds : EmbedLists]

\* The mode the remote service records for a beatmap (beatmap.mode).
NativeMode(id) == IF id = 1 THEN "Mania" ELSE "Std"

NoBeatmap == [beatmap_id |-> 0, mode |-> "none"]
\* An empty slot of last_beatmaps, and load_beatmap's None.
NoEntry == [bm |-> NoBeatmap, mode |-> "none"]
BeatmapWithMode(beatmap, mode) == [bm |-> beatmap, mode |-> mode]
NoResult == [kind |-> "none", bm |-> NoEntry, mods |-> "none", from |-> "none"]

\* What `recent` and `top` store after showing a play (mod.rs 484, 737).
OtherSaves == {BeatmapWithMode([beatmap_id |-> 1, mode |-> "Mania"], "Catch"),
               BeatmapWithMode([beatmap_id |-> 2, mode |-> "Std"], "Std")}

VARIABLES
    last_beatmaps,  \* env.last_beatmaps: channel -> BeatmapWithMode or NoEntry
    lbpc,           \* lbpc[t]: where call t of load_beatmap stands
    lbch,           \* lbch[t]: msg.channel_id
    lbmsg,          \* lbmsg[t]: msg.referenced_message
    lbcaps,         \* lbcaps[t]: the captures found in the replied message
    lbfetch,        \* lbfetch[t]: how the remote lookup of the id ended
    lbbm,           \* lbbm[t]: the beatmap the remote lookup returned
    lbread,         \* lbread[t]: how the read of the channel's slot ended
    lbres,          \* lbres[t]: what the call returns
    lbclean         \* lbclean[t]: no put to lbch[t] since t's own save_beatmap

loadVars == <<last_beatmaps, lbpc, lbch, lbmsg, lbcaps, lbfetch, lbbm, lbread, lbres,
              lbclean>>

\* SHORT_LINK_REGEX.captures(text): the leftmost match.
captures(text) == IF text = <<>> THEN NoCaps ELSE Head(text)

\* Option::or_else
or_else(a, b) == IF a # NoCaps THEN a ELSE b

\* e.fields.iter().find_map(|f| SHORT_LINK_REGEX.captures(&f.value))
RECURSIVE find_map_fields(_)
find_map_fields(fields) ==
    IF fields = <<>> THEN NoCaps
    ELSE or_else(captures(Head(fields)), find_map_fields(Tail(fields)))

\* An embed looked at fields first, description second.
embed_captures_fields_first(e) ==
    or_else(find_map_fields(e.fields),
            IF e.description = NoDesc THEN NoCaps ELSE captures(Head(e.description)))

\* mod.rs 519-526: the description, or else the fields.
embed_captures(e) ==
    or_else(IF e.description = NoDesc THEN NoCaps ELSE captures(Head(e.description)),
            find_map_fields(e.fields))

\* replied.embeds.iter().find_map(...)
RECURSIVE find_map_embeds(_)
find_map_embeds(embeds) ==
    IF embeds = <<>> THEN NoCaps
    ELSE or_else(embed_captures(Head(embeds)), find_map_embeds(Tail(embeds)))

\* mod.rs 515-528: the captures load_beatmap works with.
reply_captures(m) ==
    IF ~m.replied THEN NoCaps
    ELSE or_else(captures(m.content), find_map_embeds(m.embeds))

\* Mode::parse_from_new_site
parse_from_new_site(tag) ==
    CASE tag = "osu" -> "Std"
      [] tag = "taiko" -> "Taiko"
      [] tag = "fruits" -> "Catch"
      [] tag = "mania" -> "Mania"
      [] OTHER -> "none"

\* m.as_str().parse::<Mods>().ok(): the mods a token names, if it names any.
parse_mods(token) == IF token = "HD" THEN "HD" ELSE "none"

\* The beatmap paired with its own mode whatever the link says.
resolved_native(beatmap, caps) == BeatmapWithMode(beatmap, beatmap.mode)

\* mod.rs 544-545: BeatmapWithMode(beatmap, mode.unwrap_or(bm_mode))
resolved(beatmap, caps) ==
    LET mode == parse_from_new_site(caps.mode)
    IN  BeatmapWithMode(beatmap, IF mode # "none" THEN mode ELSE beatmap.mode)

\* cache::save_beatmap: overwrite the channel's slot.
save_beatmap(table, ch, bm) == [table EXCEPT ![ch] = bm]

\* cache::get_beatmap: the channel's slot.
get_beatmap(table, ch) == table[ch]

\* A put to channel ch by someone other than t.
Dirtied(t, ch) ==
    [o \in LbTasks |-> IF o # t /\ lbch[o] = ch THEN FALSE ELSE lbclean[o]]

LoadInit ==
    /\ last_beatmaps = [c \in Channels |-> NoEntry]
    /\ lbpc = [t \in LbTasks |-> "idle"]
    /\ lbch = [t \in LbTasks |-> "c1"]
    /\ lbmsg = [t \in LbTasks |-> NoReply]
    /\ lbcaps = [t \in LbTasks |-> NoCaps]
    /\ lbfetch = [t \in LbTasks |-> "none"]
    /\ lbbm = [t \in LbTasks |-> NoBeatmap]
    /\ lbread = [t \in LbTasks |-> "none"]
    /\ lbres = [t \in LbTasks |-> NoResult]
    /\ lbclean = [t \in LbTasks |-> FALSE]

\* mod.rs 511-536: a command calls load_beatmap(env, msg); the replied-to
\* message, one of `msgs`, is searched for a short link.
LbCallWith(t, msgs) ==
    /\ lbpc[t] = "idle"
    /\ \E ch \in Channels, m \in msgs :
         LET caps == reply_captures(m)
         IN  /\ lbch' = [lbch EXCEPT ![t] = ch]
             /\ lbmsg' = [lbmsg EXCEPT ![t] = m]
             /\ lbcaps' = [lbcaps EXCEPT ![t] = caps]
             /\ lbpc' = [lbpc EXCEPT ![t] = IF caps # NoCaps THEN "fetch" ELSE "get"]
    /\ lbfetch' = [lbfetch EXCEPT ![t] = "none"]
    /\ lbbm' = [lbbm EXCEPT ![t] = NoBeatmap]
    /\ lbread' = [lbread EXCEPT ![t] = "none"]
    /\ lbres' = [lbres EXCEPT ![t] = NoResult]
    /\ lbclean' = [lbclean EXCEPT ![t] = FALSE]
    /\ UNCHANGED last_beatmaps

LbCall(t) == LbCallWith(t, Messages)

\* mod.rs 537-543: osu_client.beatmaps(Beatmap(id), maybe_mode(mode))
\* .await.ok().and_then(|v| v.into_iter().next()): a transport error and an
\* empty answer both leave None.
LbFetch(t) ==
    /\ lbpc[t] = "fetch"
    /\ \E out \in {"err", "empty", "found"} :
         /\ lbfetch' = [lbfetch EXCEPT ![t] = out]
         /\ lbbm' = [lbbm EXCEPT ![t] =
                       IF out = "found"
                       THEN [beatmap_id |-> lbcaps[t].id, mode |-> NativeMode(lbcaps[t].id)]
                       ELSE NoBeatmap]
         /\ lbpc' = [lbpc EXCEPT ![t] = IF out = "found" THEN "save" ELSE "get"]
    /\ UNCHANGED <<last_beatmaps, lbch, lbmsg, lbcaps, lbread, lbres, lbclean>>

\* LbSave storing under the first channel whatever channel the message is in.
LbSaveFirstChannel(t) ==
    /\ lbpc[t] = "save"
    /\ \E storeOk \in BOOLEAN :
         LET bm == resolved(lbbm[t], lbcaps[t])
         IN  /\ last_beatmaps' = IF storeOk THEN save_beatmap(last_beatmaps, "c1", bm)
                                 ELSE last_beatmaps
             /\ lbclean' = [(IF storeOk THEN Dirtied(t, "c1") ELSE lbclean)
                              EXCEPT ![t] = TRUE]
             /\ lbres' = [lbres EXCEPT ![t] =
                            [kind |-> "some", bm |-> bm, mods |-> parse_mods(lbcaps[t].mods),
                             from |-> "reply"]]
    /\ lbpc' = [lbpc EXCEPT ![t] = "ret"]
    /\ UNCHANGED <<lbch, lbmsg, lbcaps, lbfetch, lbbm, lbread>>

\* mod.rs 543-552: store the beatmap in the channel's slot, whatever the
\* store answers (.pls_ok()), and return it with the link's mods.
LbSave(t) ==
    /\ lbpc[t] = "save"
    /\ \E storeOk \in BOOLEAN :
         LET bm == resolved(lbbm[t], lbcaps[t])
         IN  /\ last_beatmaps' = IF storeOk THEN save_beatmap(last_beatmaps, lbch[t], bm)
                                 ELSE last_beatmaps
             /\ lbclean' = [(IF storeOk THEN Dirtied(t, lbch[t]) ELSE lbclean)
                              EXCEPT ![t] = TRUE]
             /\ lbres' = [lbres EXCEPT ![t] =
                            [kind |-> "some", bm |-> bm, mods |-> parse_mods(lbcaps[t].mods),
                             from |-> "reply"]]
    /\ lbpc' = [lbpc EXCEPT ![t] = "ret"]
    /\ UNCHANGED <<lbch, lbmsg, lbcaps, lbfetch, lbbm, lbread>>

\* LbGet reading the first channel's slot whatever channel the message is in.
LbGetFirstChannel(t) ==
    /\ lbpc[t] = "get"
    /\ \E storeOk \in BOOLEAN :
         LET b == IF storeOk THEN get_beatmap(last_beatmaps, "c1") ELSE NoEntry
         IN  /\ lbread' = [lbread EXCEPT ![t] = IF storeOk THEN "ok" ELSE "err"]
             /\ lbres' = [lbres EXCEPT ![t] =
                            IF b = NoEntry THEN NoResult
                            ELSE [kind |-> "some", bm |-> b, mods |-> "none",
                                  from |-> "cache"]]
    /\ lbpc' = [lbpc EXCEPT ![t] = "ret"]
    /\ UNCHANGED <<last_beatmaps, lbch, lbmsg, lbcaps, lbfetch, lbbm, lbclean>>

\* mod.rs 556-560: cache::get_beatmap(..).await.ok().flatten(), no mods.
LbGet(t) ==
    /\ lbpc[t] = "get"
    /\ \E storeOk \in BOOLEAN :
         LET b == IF storeOk THEN get_beatmap(last_beatmaps, lbch[t]) ELSE NoEntry
         IN  /\ lbread' = [lbread EXCEPT ![t] = IF storeOk THEN "ok" ELSE "err"]
             /\ lbres' = [lbres EXCEPT ![t] =
                            IF b = NoEntry THEN NoResult
                            ELSE [kind |-> "some", bm |-> b, mods |-> "none",
                                  from |-> "cache"]]
    /\ lbpc' = [lbpc EXCEPT ![t] = "ret"]
    /\ UNCHANGED <<last_beatmaps, lbch, lbmsg, lbcaps, lbfetch, lbbm, lbclean>>

\* The caller is done with the result; the task may make another call.
LbReturn(t) ==
    /\ lbpc[t] = "ret"
    /\ lbpc' = [lbpc EXCEPT ![t] = "idle"]
    /\ lbch' = [lbch EXCEPT ![t] = "c1"]
    /\ lbmsg' = [lbmsg EXCEPT ![t] = NoReply]
    /\ lbcaps' = [lbcaps EXCEPT ![t] = NoCaps]
    /\ lbfetch' = [lbfetch EXCEPT ![t] = "none"]
    /\ lbbm' = [lbbm EXCEPT ![t] = NoBeatmap]
    /\ lbread' = [lbread EXCEPT ![t] = "none"]
    /\ lbres' = [lbres EXCEPT ![t] = NoResult]
    /\ lbclean' = [lbclean EXCEPT ![t] = FALSE]
    /\ UNCHANGED last_beatmaps

\* mod.rs 483-484, 736-737: `recent` or `top` shows a play in channel ch and
\* stores its beatmap.
OtherCommandSaves(ch, bm) ==
    /\ last_beatmaps' = save_beatmap(last_beatmaps, ch, bm)
    /\ lbclean' = [o \in LbTasks |-> IF lbch[o] = ch THEN FALSE ELSE lbclean[o]]
    /\ UNCHANGED <<lbpc, lbch, lbmsg, lbcaps, lbfetch, lbbm, lbread, lbres>>

(***************************************************************************)
(* to_user_id_query (mod.rs 395-411), with `forcesave` (mod.rs 336-364)    *)
(* changing the saved users meanwhile.                                     *)
(***************************************************************************)
\* Concurrent calls of to_user_id_query.
UqTasks == {1}

\* Option<UsernameArg>: None, Raw(token) or Tagged(identity).
NoArg == [kind |-> "none", token |-> "", identity |-> ""]
Raw(token) == [kind |-> "raw", token |-> token, identity |-> ""]
Tagged(identity) == [kind |-> "tagged", token |-> "", identity |-> identity]
\* Raw tokens: digits only, or a name.
Tokens == {"3", "peppy"}
UsernameArgs == {NoArg} \cup {Raw(k) : k \in Tokens} \cup {Tagged(i) : i \in Identities}

\* UserID::ID(id) and UserID::Username(name).
UserIDOfId(id) == [kind |-> "id", id |-> id, name |-> ""]
UserIDOfName(name) == [kind |-> "name", id |-> 0, name |-> name]
NoUserID == [kind |-> "none", id |-> 0, name |-> ""]

\* UserID::from_string: a token that parses as a number is an id, any other
\* a username.
from_string(token) ==
    IF token = "3" THEN UserIDOfId(3) ELSE UserIDOfName(token)

\* OsuSavedUsers::by_user_id: the identity's row, NoLink when it has none.
by_user_id(table, id) == table[id]

VARIABLES
    uqpc,       \* uqpc[t]: where call t of to_user_id_query stands
    uqarg,      \* uqarg[t]: s, the parsed argument
    uqauthor,   \* uqauthor[t]: msg.author.id
    uqread,     \* uqread[t]: how the read of saved_users ended
    uqres       \* uqres[t]: what the call returns

userVars == <<uqpc, uqarg, uqauthor, uqread, uqres>>

NoAnswer == [kind |-> "none", uid |-> NoUserID]

\* The identity looked up, with a mention ignored in favour of the author.
saved_user_key_author_only(s, who) == who

\* mod.rs 400-404: the identity whose saved account is looked up.
saved_user_key(s, who) ==
    IF s.kind = "tagged" THEN s.identity ELSE who

UserInit ==
    /\ uqpc = [t \in UqTasks |-> "idle"]
    /\ uqarg = [t \in UqTasks |-> NoArg]
    /\ uqauthor = [t \in UqTasks |-> "alice"]
    /\ uqread = [t \in UqTasks |-> "none"]
    /\ uqres = [t \in UqTasks |-> NoAnswer]

\* mod.rs 395-404: a command calls to_user_id_query(s, env, msg); a raw
\* token is returned at once as UserID::from_string(s).
UqCall(t) ==
    /\ uqpc[t] = "idle"
    /\ \E s \in UsernameArgs, who \in Identities :
         /\ uqarg' = [uqarg EXCEPT ![t] = s]
         /\ uqauthor' = [uqauthor EXCEPT ![t] = who]
         /\ IF s.kind = "raw"
            THEN /\ uqres' = [uqres EXCEPT ![t] =
                                [kind |-> "ok", uid |-> from_string(s.token)]]
                 /\ uqpc' = [uqpc EXCEPT ![t] = "ret"]
            ELSE /\ uqres' = [uqres EXCEPT ![t] = NoAnswer]
                 /\ uqpc' = [uqpc EXCEPT ![t] = "read"]
    /\ uqread' = [uqread EXCEPT ![t] = "none"]

\* mod.rs 406-410: env.saved_users.by_user_id(id).await?, mapped to the
\* row's account id, or "No saved account found".
UqRead(t) ==
    /\ uqpc[t] = "read"
    /\ \E storeOk \in BOOLEAN :
         LET u == by_user_id(saved, saved_user_key(uqarg[t], uqauthor[t]))
         IN  /\ uqread' = [uqread EXCEPT ![t] = IF storeOk THEN "ok" ELSE "err"]
             /\ uqres' = [uqres EXCEPT ![t] =
                            IF ~storeOk THEN [kind |-> "err_store", uid |-> NoUserID]
                            ELSE IF u = NoLink
                                 THEN [kind |-> "no_saved_account", uid |-> NoUserID]
                                 ELSE [kind |-> "ok", uid |-> UserIDOfId(u.id)]]
    /\ uqpc' = [uqpc EXCEPT ![t] = "ret"]
    /\ UNCHANGED <<uqarg, uqauthor>>

\* The caller goes on with the answer; the task may make another call.
UqReturn(t) ==
    /\ uqpc[t] = "ret"
    /\ uqpc' = [uqpc EXCEPT ![t] = "idle"]
    /\ uqarg' = [uqarg EXCEPT ![t] = NoArg]
    /\ uqauthor' = [uqauthor EXCEPT ![t] = "alice"]
    /\ uqread' = [uqread EXCEPT ![t] = "none"]
    /\ uqres' = [uqres EXCEPT ![t] = NoAnswer]

\* mod.rs 336-364: an owner runs `forcesave target username`; when the
\* remote service knows the account and the store accepts the row, the
\* target's saved account is replaced.  (`writes` lists the writes of `save`
\* invocations only.)
ForceSave(target, name) ==
    /\ name # NoAccount
    /\ \E storeOk \in BOOLEAN :
         saved' = IF storeOk THEN new_user(saved, add_user(target, name)) ELSE saved
    /\ UNCHANGED <<pc, author, cand, challenge, queried, timer, elapsed, nsig, saved0,
                   writes, confirmed, recent, lastMode>>

(***************************************************************************)
(* calculate_weighted_map_length (mod.rs 814-835).                         *)
(*                                                                         *)
(* SCALING_FACTOR is 0.975 = 39/40.  Lengths are kept exact, as whole      *)
(* multiples of 1/LengthUnit seconds, so that thirds of a second (DT) and  *)
(* every power of 39/40 up to the last rank are whole numbers.             *)
(***************************************************************************)
SCALING_NUM == 39
SCALING_DEN == 40
\* The highest 0-indexed rank of a score.
MaxRank == MaxScores - 1
\* Units per second.
LengthUnit == 3 * SCALING_DEN ^ MaxRank

\* The beatmaps scores are on, and beatmap.difficulty.drain_length of each
\* in seconds.
LengthMaps == {1, 2, 3}
drain_length(id) == CASE id = 1 -> 100 [] id = 2 -> 200 [] OTHER -> 180
ScoreMods == {"NM", "DT"}
Scores == [beatmap_id : LengthMaps, mods : ScoreMods]
ScoreLists == UNION {[1..n -> Scores] : n \in 0..MaxScores}

\* difficulty.apply_mods(mods, _).drain_length, in thirds of a second: DT
\* plays the map at 1.5 times the speed.
apply_mods_drain(secs, mods) == IF mods = "DT" THEN 2 * secs ELSE 3 * secs

\* SCALING_FACTOR.powi(i), in units of 1 / SCALING_DEN ^ MaxRank.
powi(i) == SCALING_NUM ^ i * SCALING_DEN ^ (MaxRank - i)

\* The future's value with the ranks counted from one.
future_value_from_one(i, sc) ==
    apply_mods_drain(drain_length(sc.beatmap_id), sc.mods) * powi(i + 1)

\* mod.rs 822-831: the value of the future of (i, s), i counted from zero.
future_value(i, sc) ==
    apply_mods_drain(drain_length(sc.beatmap_id), sc.mods) * powi(i)

VARIABLES
    wlpc,       \* where the call of calculate_weighted_map_length stands
    wlscores,   \* from_scores
    wlpending,  \* the futures not completed yet, by position (1-indexed)
    wlorder,    \* the positions of the completed futures, in completion order
    wlacc       \* the accumulator of try_fold

lengthVars == <<wlpc, wlscores, wlpending, wlorder, wlacc>>

LengthInit ==
    /\ wlpc = "idle"
    /\ wlscores = <<>>
    /\ wlpending = {}
    /\ wlorder = <<>>
    /\ wlacc = 0

\* mod.rs 819-832: one future per score, each with its own index from
\* enumerate(), collected into a FuturesUnordered; the fold starts at 0.0.
WlCall ==
    /\ wlpc = "idle"
    /\ \E scores \in ScoreLists :
         /\ wlscores' = scores
         /\ wlpending' = 1..Len(scores)
    /\ wlorder' = <<>>
    /\ wlacc' = 0
    /\ wlpc' = "running"

\* WlComplete weighting a value by the number of futures completed before it.
WlCompleteByArrival(p) ==
    /\ wlpc = "running"
    /\ p \in wlpending
    /\ \E cacheOk \in BOOLEAN :
         IF cacheOk
         THEN /\ wlacc' = wlacc + future_value(Len(wlorder), wlscores[p])
              /\ wlorder' = Append(wlorder, p)
              /\ wlpending' = wlpending \ {p}
              /\ UNCHANGED wlpc
         ELSE /\ wlpc' = "err"
              /\ UNCHANGED <<wlpending, wlorder, wlacc>>
    /\ UNCHANGED wlscores

\* mod.rs 823-833: the future at position p completes, in whatever order;
\* try_fold adds its value to the accumulator, or ends with the error of
\* cache.get_beatmap.
WlComplete(p) ==
    /\ wlpc = "running"
    /\ p \in wlpending
    /\ \E cacheOk \in BOOLEAN :
         IF cacheOk
         THEN /\ wlacc' = wlacc + future_value(p - 1, wlscores[p])
              /\ wlorder' = Append(wlorder, p)
              /\ wlpending' = wlpending \ {p}
              /\ UNCHANGED wlpc
         ELSE /\ wlpc' = "err"
              /\ UNCHANGED <<wlpending, wlorder, wlacc>>
    /\ UNCHANGED wlscores

\* mod.rs 833-834: the stream is exhausted; the accumulator is the result.
WlFinish ==
    /\ wlpc = "running"
    /\ wlpending = {}
    /\ wlpc' = "ok"
    /\ UNCHANGED <<wlscores, wlpending, wlorder, wlacc>>

\* The caller goes on with the result; another call may follow.
WlReturn ==
    /\ wlpc \in {"ok", "err"}
    /\ wlpc' = "idle"
    /\ wlscores' = <<>>
    /\ wlpending' = {}
    /\ wlorder' = <<>>
    /\ wlacc' = 0

(***************************************************************************)
(* DifficultyCache, env.oppai (callers: mod.rs 281-285, 591-595, 786-790). *)
(*                                                                         *)
(* A map from beatmap id to a shared, awaitable, write-once slot: the      *)
(* first caller of an uncached id starts the download and parse, later     *)
(* callers await the same slot, a failure reaches every waiter and clears  *)
(* the slot.                                                               *)
(***************************************************************************)
\* Concurrent callers of env.oppai.get_beatmap.
DcCallers == {1, 2, 3}
\* The beatmaps whose charts are asked for.
ChartIds == {1, 2}

NoChart == [id |-> 0, download |-> 0]
EmptySlot == [state |-> "empty", chart |-> NoChart]
InFlight == [state |-> "inflight", chart |-> NoChart]
Memoized(chart) == [state |-> "ready", chart |-> chart]
NoChartResult == [kind |-> "none", chart |-> NoChart]

VARIABLES
    charts,     \* charts[id]: the slot of beatmap id
    downloads,  \* downloads[id]: downloads of id's chart started so far
    dcpc,       \* dcpc[c]: where caller c stands
    dcid,       \* dcid[c]: the beatmap id c asked for
    dcjoin,     \* dcjoin[c]: the download c's answer comes from (0: memoized)
    dcres       \* dcres[c]: what c's call returned

dcVars == <<charts, downloads, dcpc, dcid, dcjoin, dcres>>

DcInit ==
    /\ charts = [id \in ChartIds |-> EmptySlot]
    /\ downloads = [id \in ChartIds |-> 0]
    /\ dcpc = [c \in DcCallers |-> "idle"]
    /\ dcid = [c \in DcCallers |-> 0]
    /\ dcjoin = [c \in DcCallers |-> 0]
    /\ dcres = [c \in DcCallers |-> NoChartResult]

\* get_chart starting a download of its own whenever the chart is not
\* memoized yet, whether or not one is in flight.
DcGetNoSingleFlight(c, id) ==
    /\ dcpc[c] = "idle"
    /\ dcid' = [dcid EXCEPT ![c] = id]
    /\ IF charts[id].state = "ready"
       THEN /\ dcres' = [dcres EXCEPT ![c] = [kind |-> "ok", chart |-> charts[id].chart]]
            /\ dcjoin' = [dcjoin EXCEPT ![c] = 0]
            /\ dcpc' = [dcpc EXCEPT ![c] = "got"]
            /\ UNCHANGED <<charts, downloads>>
       ELSE /\ downloads[id] < MaxDownloads
            /\ charts' = [charts EXCEPT ![id] = InFlight]
            /\ downloads' = [downloads EXCEPT ![id] = @ + 1]
            /\ dcjoin' = [dcjoin EXCEPT ![c] = downloads[id] + 1]
            /\ dcres' = [dcres EXCEPT ![c] = NoChartResult]
            /\ dcpc' = [dcpc EXCEPT ![c] = "waiting"]

\* env.oppai.get_beatmap(id): a memoized chart is returned at once; with a
\* computation in flight the caller awaits it; otherwise the caller starts
\* the one download and parse and awaits it.
DcGet(c, id) ==
    /\ dcpc[c] = "idle"
    /\ dcid' = [dcid EXCEPT ![c] = id]
    /\ CASE charts[id].state = "ready" ->
              /\ dcres' = [dcres EXCEPT ![c] = [kind |-> "ok", chart |-> charts[id].chart]]
              /\ dcjoin' = [dcjoin EXCEPT ![c] = 0]
              /\ dcpc' = [dcpc EXCEPT ![c] = "got"]
              /\ UNCHANGED <<charts, downloads>>
         [] charts[id].state = "inflight" ->
              /\ dcjoin' = [dcjoin EXCEPT ![c] = downloads[id]]
              /\ dcres' = [dcres EXCEPT ![c] = NoChartResult]
              /\ dcpc' = [dcpc EXCEPT ![c] = "waiting"]
              /\ UNCHANGED <<charts, downloads>>
         [] OTHER ->
              /\ downloads[id] < MaxDownloads
              /\ charts' = [charts EXCEPT ![id] = InFlight]
              /\ downloads' = [downloads EXCEPT ![id] = @ + 1]
              /\ dcjoin' = [dcjoin EXCEPT ![c] = downloads[id] + 1]
              /\ dcres' = [dcres EXCEPT ![c] = NoChartResult]
              /\ dcpc' = [dcpc EXCEPT ![c] = "waiting"]

\* The download and parse of id's chart ends: with the chart, which is
\* memoized and handed to every waiter, or with DownloadFailed or
\* ParseFailed, which reaches every waiter and clears the slot.
DcComplete(id) ==
    /\ charts[id].state = "inflight"
    /\ \E out \in {"ok", "DownloadFailed", "ParseFailed"} :
         LET chart == [id |-> id, download |-> downloads[id]]
             answer == IF out = "ok" THEN [kind |-> "ok", chart |-> chart]
                       ELSE [kind |-> out, chart |-> NoChart]
         IN  /\ charts' = [charts EXCEPT ![id] =
                             IF out = "ok" THEN Memoized(chart) ELSE EmptySlot]
             /\ dcres' = [c \in DcCallers |->
                            IF dcpc[c] = "waiting" /\ dcid[c] = id THEN answer
                            ELSE dcres[c]]
             /\ dcpc' = [c \in DcCallers |->
                           IF dcpc[c] = "waiting" /\ dcid[c] = id THEN "got"
                           ELSE dcpc[c]]
    /\ UNCHANGED <<downloads, dcid, dcjoin>>

\* The caller goes on with the chart (get_possible_pp_with, get_info_with).
DcDone(c) ==
    /\ dcpc[c] = "got"
    /\ dcpc' = [dcpc EXCEPT ![c] = "idle"]
    /\ dcid' = [dcid EXCEPT ![c] = 0]
    /\ dcjoin' = [dcjoin EXCEPT ![c] = 0]
    /\ dcres' = [dcres EXCEPT ![c] = NoChartResult]
    /\ UNCHANGED <<charts, downloads>>

\* DifficultyCache clear(): every memoized chart is dropped; a computation
\* in flight goes on for its waiters.
oppai_clear(slots) ==
    [id \in ChartIds |-> IF slots[id].state = "ready" THEN EmptySlot ELSE slots[id]]

(***************************************************************************)
(* BeatmapMetaCache, env.beatmaps (callers: mod.rs 785, 823), one caller   *)
(* at a time: PersistentStore, on a miss the RemoteClient, on success a    *)
(* write-through to the store.  The reads and writes of the store and the  *)
(* remote fetch are separate steps.                                        *)
(***************************************************************************)
\* The beatmaps BeatmapMetaCache is asked for.
MetaIds == {1, 2}

NoMetaCall == [id |-> 0, kind |-> "none", remote |-> 0, clears |-> FALSE]

VARIABLES
    metaStore,  \* the beatmap ids with a row in the store
    mcpc,       \* where the call of get_beatmap stands
    mcid,       \* the id asked for
    mcremote,   \* RemoteClient calls made by this call so far
    mcres,      \* how the call ended: "ok", "NotFound", "UpstreamError"
    mcclears,   \* clear() has run since this call started
    mcafter,    \* no call has started since the latest clear(), which ran
                \* with no call in flight ("idle") or with one ("busy"); "no":
                \* no clear() since the latest call started
    mcfirst,    \* mcafter as it was when this call started
    mcprev      \* the call before this one, and whether clear() ran since it
                \* started and before this one did

metaVars == <<metaStore, mcpc, mcid, mcremote, mcres, mcclears, mcafter, mcfirst, mcprev>>

MetaInit ==
    /\ metaStore = {}
    /\ mcpc = "idle"
    /\ mcid = 0
    /\ mcremote = 0
    /\ mcres = "none"
    /\ mcclears = FALSE
    /\ mcafter = "no"
    /\ mcfirst = "no"
    /\ mcprev = NoMetaCall

\* env.beatmaps.get_beatmap(id, mode): the call starts.
McCall(id) ==
    /\ mcpc = "idle"
    /\ mcpc' = "store"
    /\ mcid' = id
    /\ mcprev' = [id |-> mcid, kind |-> mcres, remote |-> mcremote, clears |-> mcclears]
    /\ mcremote' = 0
    /\ mcres' = "none"
    /\ mcclears' = FALSE
    /\ mcfirst' = mcafter
    /\ mcafter' = "no"
    /\ UNCHANGED metaStore

\* The store is asked first; a row there is the answer.
McStore ==
    /\ mcpc = "store"
    /\ IF mcid \in metaStore
       THEN mcpc' = "done" /\ mcres' = "ok"
       ELSE mcpc' = "remote" /\ mcres' = "none"
    /\ UNCHANGED <<metaStore, mcid, mcremote, mcclears, mcafter, mcfirst, mcprev>>

\* McRemote without the write-through.
McRemoteNoWriteThrough ==
    /\ mcpc = "remote"
    /\ mcremote' = mcremote + 1
    /\ \E out \in {"ok", "NotFound", "UpstreamError"} : mcres' = out
    /\ mcpc' = "done"
    /\ UNCHANGED <<metaStore, mcid, mcclears, mcafter, mcfirst, mcprev>>

\* On a miss the remote service is asked; a beatmap it returns is written
\* through to the store.
McRemote ==
    /\ mcpc = "remote"
    /\ mcremote' = mcremote + 1
    /\ \E out \in {"ok", "NotFound", "UpstreamError"} :
         /\ mcres' = out
         /\ metaStore' = IF out = "ok" THEN metaStore \cup {mcid} ELSE metaStore
    /\ mcpc' = "done"
    /\ UNCHANGED <<mcid, mcclears, mcafter, mcfirst, mcprev>>

\* The call returns to its caller.
McReturn ==
    /\ mcpc = "done"
    /\ mcpc' = "idle"
    /\ UNCHANGED <<metaStore, mcid, mcremote, mcres, mcclears, mcafter, mcfirst, mcprev>>

\* BeatmapMetaCache clear(): every row is dropped.
beatmaps_clear(store) == {}

(***************************************************************************)
(* clean_cache (mod.rs 754-763).                                           *)
(***************************************************************************)
\* args.remains(): None, or the text after the command.
CleanArgs == {"", "--oppai", "--oppai now", "oppai"}

VARIABLES
    cleaned,    \* the last run of clean_cache: its argument and how it ended
    cleanruns   \* the parity of the number of runs

cleanVars == <<cleaned, cleanruns>>

CleanInit ==
    /\ cleaned = [arg |-> "", ended |-> "none"]
    /\ cleanruns = 0

\* clean_cache that leaves the beatmap cache as it is.
CleanCacheKeepsBeatmaps(arg) ==
    /\ cleanruns' = 1 - cleanruns
    /\ \E metaOk \in BOOLEAN, oppaiOk \in BOOLEAN :
         IF ~metaOk
         THEN /\ cleaned' = [arg |-> arg, ended |-> "err_beatmaps"]
              /\ UNCHANGED <<metaStore, mcclears, mcafter, charts>>
         ELSE /\ metaStore' = metaStore
              /\ mcclears' = TRUE
              /\ mcafter' = IF mcpc = "idle" THEN "idle" ELSE "busy"
              /\ IF arg = "--oppai"
                 THEN IF oppaiOk
                      THEN /\ charts' = oppai_clear(charts)
                           /\ cleaned' = [arg |-> arg, ended |-> "ok_both"]
                      ELSE /\ cleaned' = [arg |-> arg, ended |-> "err_oppai"]
                           /\ UNCHANGED charts
                 ELSE /\ cleaned' = [arg |-> arg, ended |-> "ok_beatmaps"]
                      /\ UNCHANGED charts
    /\ UNCHANGED <<mcpc, mcid, mcremote, mcres, mcfirst, mcprev>>
    /\ UNCHANGED <<downloads, dcpc, dcid, dcjoin, dcres>>

\* clean_cache clearing the oppai cache whenever it has an argument.
CleanCacheAnyArg(arg) ==
    /\ cleanruns' = 1 - cleanruns
    /\ \E metaOk \in BOOLEAN, oppaiOk \in BOOLEAN :
         IF ~metaOk
         THEN /\ cleaned' = [arg |-> arg, ended |-> "err_beatmaps"]
              /\ UNCHANGED <<metaStore, mcclears, mcafter, charts>>
         ELSE /\ metaStore' = beatmaps_clear(metaStore)
              /\ mcclears' = TRUE
              /\ mcafter' = IF mcpc = "idle" THEN "idle" ELSE "busy"
              /\ IF arg # ""
                 THEN IF oppaiOk
                      THEN /\ charts' = oppai_clear(charts)
                           /\ cleaned' = [arg |-> arg, ended |-> "ok_both"]
                      ELSE /\ cleaned' = [arg |-> arg, ended |-> "err_oppai"]
                           /\ UNCHANGED charts
                 ELSE /\ cleaned' = [arg |-> arg, ended |-> "ok_beatmaps"]
                      /\ UNCHANGED charts
    /\ UNCHANGED <<mcpc, mcid, mcremote, mcres, mcfirst, mcprev>>
    /\ UNCHANGED <<downloads, dcpc, dcid, dcjoin, dcres>>

\* mod.rs 754-763: env.beatmaps.clear().await?, then env.oppai.clear().await?
\* when the argument is "--oppai", then the reply.
CleanCache(arg) ==
    /\ cleanruns' = 1 - cleanruns
    /\ \E metaOk \in BOOLEAN, oppaiOk \in BOOLEAN :
         IF ~metaOk
         THEN /\ cleaned' = [arg |-> arg, ended |-> "err_beatmaps"]
              /\ UNCHANGED <<metaStore, mcclears, mcafter, charts>>
         ELSE /\ metaStore' = beatmaps_clear(metaStore)
              /\ mcclears' = TRUE
              /\ mcafter' = IF mcpc = "idle" THEN "idle" ELSE "busy"
              /\ IF arg = "--oppai"
                 THEN IF oppaiOk
                      THEN /\ charts' = oppai_clear(charts)
                           /\ cleaned' = [arg |-> arg, ended |-> "ok_both"]
                      ELSE /\ cleaned' = [arg |-> arg, ended |-> "err_oppai"]
                           /\ UNCHANGED charts
                 ELSE /\ cleaned' = [arg |-> arg, ended |-> "ok_beatmaps"]
                      /\ UNCHANGED charts
    /\ UNCHANGED <<mcpc, mcid, mcremote, mcres, mcfirst, mcprev>>
    /\ UNCHANGED <<downloads, dcpc, dcid, dcjoin, dcres>>

(***************************************************************************)
(* The reactions `save` listens to (mod.rs 293-302).                       *)
(*                                                                         *)
(* The challenge message of invocation a (reply.id) is message a; message  *)
(* 0 is any other message of the channel.                                  *)
(***************************************************************************)
\* reply.react(&ctx, '👌'): the symbol the bot offers on the challenge.
OfferedEmoji == "ok_hand"
Emojis == {OfferedEmoji, "thumbsup"}
ReactMessages == {0} \cup Attempts
\* A reaction some identity adds to some message.
Reactions == [who : Identities, msg : ReactMessages, emoji : Emojis]
NoReaction == [who |-> "nobody", msg |-> 0, emoji |-> "none"]

VARIABLES
    reaction    \* the reaction added last

reactVars == <<reaction>>

ReactInit == reaction = NoReaction

\* The collector of invocation a taking a reaction by anyone.
collects_any_author(a, r) ==
    /\ r.msg = a
    /\ r.emoji = OfferedEmoji

\* mod.rs 296-299: .message_id(reply.id).author_id(msg.author.id)
\* .filter(move |r| r.emoji == emoji)
collects(a, r) ==
    /\ r.msg = a
    /\ r.who = author[a]
    /\ r.emoji = OfferedEmoji

\* Someone adds reaction r.  The collector of a waiting invocation yields
\* it if it passes the collector's filters, and the loop body runs (Signal);
\* any other reaction leaves every invocation where it is.
React(r) ==
    /\ reaction' = r
    /\ IF \E a \in Attempts : pc[a] = "awaiting" /\ collects(a, r)
       THEN \E a \in Attempts : pc[a] = "awaiting" /\ collects(a, r) /\ Signal(a)
       ELSE UNCHANGED saveVars

(***************************************************************************)
(* `recent` (mod.rs 439-494) and `top` (mod.rs 689-747), one invocation at *)
(* a time.  The order `#n` is n; 0 stands for Nth::All.                    *)
(***************************************************************************)
ShowCommands == {"recent", "top"}
ShowModes == {"Std", "Taiko"}
\* The orders a command is given: Nth::All, or Nth::Nth(n).
All == 0
Orders == {All} \cup 1..MaxNth
\* The accounts a command is run for; NoAccount: the remote service knows
\* no such user.
ShowAccounts == {1, 2, 5, NoAccount}

\* The plays of a set of scores, best first.
RECURSIVE in_order(_)
in_order(S) ==
    IF S = {} THEN <<>>
    ELSE LET b == CHOOSE x \in S : \A y \in S : x <= y
         IN  <<[beatmap_id |-> b]>> \o in_order(S \ {b})

\* The sequence s backwards.
reversed(s) == [i \in 1..Len(s) |-> s[Len(s) + 1 - i]]

\* What the remote service holds for a command: the account's best scores
\* in the mode, best first, for `top`; its latest plays in the mode, newest
\* first, for `recent`.
remote_plays(cmd, u, mode) ==
    IF cmd = "top" THEN in_order(user_best(u, mode))
    ELSE reversed(in_order(user_best(u, mode)))

\* |f| f.limit(n): the service answers with the first n entries at most.
limit(plays, n) == SubSeq(plays, 1, IF n < Len(plays) THEN n ELSE Len(plays))

\* .limit(50) at mod.rs 488 and .limit(100) at mod.rs 741
list_limit(cmd) == IF cmd = "top" THEN TOP_LIST_LIMIT ELSE RECENT_LIST_LIMIT

NoShown == [beatmap_id |-> 0, rank |-> 0]

VARIABLES
    shpc,       \* where the invocation stands
    shcmd,      \* the command
    shnth,      \* nth
    shmode,     \* mode
    shch,       \* msg.channel_id
    shacct,     \* user.id, NoAccount when the service knows no such user
    shplays,    \* the plays the service answered with
    shshown,    \* the play in the message sent, and the rank it is labelled with
    shend       \* how the invocation ended

showVars == <<shpc, shcmd, shnth, shmode, shch, shacct, shplays, shshown, shend>>

ShowInit ==
    /\ shpc = "idle"
    /\ shcmd = "recent"
    /\ shnth = All
    /\ shmode = "Std"
    /\ shch = "c1"
    /\ shacct = NoAccount
    /\ shplays = <<>>
    /\ shshown = NoShown
    /\ shend = "none"

\* mod.rs 439-444, 689-696: the command is invoked and reads its arguments.
ShCall ==
    /\ shpc = "idle"
    /\ \E cmd \in ShowCommands, n \in Orders, mode \in ShowModes, ch \in Channels,
          u \in ShowAccounts :
         /\ shcmd' = cmd
         /\ shnth' = n
         /\ shmode' = mode
         /\ shch' = ch
         /\ shacct' = u
    /\ shpc' = "lookup"
    /\ shplays' = <<>>
    /\ shshown' = NoShown
    /\ shend' = "none"
    /\ UNCHANGED loadVars

\* mod.rs 445-470, 698-719: the user, the plays, and for `#n` the last play
\* of the answer with its beatmap and its chart; every await may fail.
ShLookup ==
    /\ shpc = "lookup"
    /\ \E fail \in {"none", "err_user_id", "err_user", "err_plays", "err_beatmap",
                    "err_oppai"} :
         LET n == IF shnth = All THEN list_limit(shcmd) ELSE shnth
             plays == limit(remote_plays(shcmd, shacct, shmode), n)
             end == IF fail \in {"err_user_id", "err_user"} THEN fail
                    ELSE IF shacct = NoAccount THEN "user_not_found"
                    ELSE IF fail = "err_plays" THEN fail
                    ELSE IF shnth = All THEN "none"
                    ELSE IF plays = <<>> THEN "no_such_play"
                    ELSE fail
         IN  /\ shend' = end
             /\ shplays' = IF end \in {"none", "err_beatmap", "err_oppai", "no_such_play"}
                           THEN plays ELSE <<>>
             /\ shpc' = IF end # "none" THEN "ended"
                        ELSE IF shnth = All THEN "list" ELSE "send"
    /\ UNCHANGED <<shcmd, shnth, shmode, shch, shacct, shshown>>
    /\ UNCHANGED loadVars

\* mod.rs 473-481, 711-734: the message with the play, for `top` labelled
\* with top_record(rank), rank being the length of the answer.
ShSend ==
    /\ shpc = "send"
    /\ \E sendOk \in BOOLEAN :
         IF sendOk
         THEN /\ shshown' = [beatmap_id |-> shplays[Len(shplays)].beatmap_id,
                             rank |-> IF shcmd = "top" THEN Len(shplays) ELSE 0]
              /\ shpc' = "save"
              /\ UNCHANGED shend
         ELSE /\ shend' = "err_send"
              /\ shpc' = "ended"
              /\ UNCHANGED shshown
    /\ UNCHANGED <<shcmd, shnth, shmode, shch, shacct, shplays>>
    /\ UNCHANGED loadVars

\* The pair of the shown play with the beatmap's own mode.
shown_pair_native(id, mode) ==
    BeatmapWithMode([beatmap_id |-> id, mode |-> NativeMode(id)], NativeMode(id))

\* mod.rs 471, 719: BeatmapWithMode(beatmap, mode)
shown_pair(id, mode) ==
    BeatmapWithMode([beatmap_id |-> id, mode |-> NativeMode(id)], mode)

\* mod.rs 483-484, 736-737: cache::save_beatmap(..).await?
ShSave ==
    /\ shpc = "save"
    /\ \E storeOk \in BOOLEAN :
         IF storeOk
         THEN /\ last_beatmaps' = save_beatmap(last_beatmaps, shch,
                                               shown_pair(shshown.beatmap_id, shmode))
              /\ lbclean' = Dirtied(0, shch)
              /\ shend' = "ok"
         ELSE /\ shend' = "err_store"
              /\ UNCHANGED <<last_beatmaps, lbclean>>
    /\ shpc' = "ended"
    /\ UNCHANGED <<shcmd, shnth, shmode, shch, shacct, shplays, shshown>>
    /\ UNCHANGED <<lbpc, lbch, lbmsg, lbcaps, lbfetch, lbbm, lbread, lbres>>

\* mod.rs 486-491, 739-744: style.display_scores(plays, mode, ctx, msg).await?
ShList ==
    /\ shpc = "list"
    /\ \E sendOk \in BOOLEAN : shend' = IF sendOk THEN "ok" ELSE "err_send"
    /\ shpc' = "ended"
    /\ UNCHANGED <<shcmd, shnth, shmode, shch, shacct, shplays, shshown>>
    /\ UNCHANGED loadVars

\* The command has returned; the next one may be invoked.
ShReturn ==
    /\ shpc = "ended"
    /\ shpc' = "idle"
    /\ UNCHANGED <<shcmd, shnth, shmode, shch, shacct, shplays, shshown, shend>>
    /\ UNCHANGED loadVars

(***************************************************************************)
(* The `check` command (mod.rs 620-681), one invocation at a time.         *)
(***************************************************************************)
\* The accounts the command's target resolves to.
CheckAccounts == {1, 5}
\* s.pp is an Option: None, or Some(value).
NoPP == <<>>
\* Sets of mods; Mods::default() is no mod at all.
NoMods == {}
Filters == {NoMods, {"HD"}}

\* osu_client.scores(b, |f| f.user(UserID::ID(u)).mode(m)): the account's
\* scores on the beatmap in the mode, in the order the remote service gives
\* them (ord).  Account 1 has four scores in every mode but taiko, where it
\* has three, two of them without a performance value.
beatmap_scores(u, b, m) ==
    IF u # 1 THEN <<>>
    ELSE IF m = "Taiko"
    THEN <<[beatmap_id |-> b, ord |-> 1, pp |-> NoPP, mods |-> {"HD"}],
           [beatmap_id |-> b, ord |-> 2, pp |-> <<10>>, mods |-> NoMods],
           [beatmap_id |-> b, ord |-> 3, pp |-> NoPP, mods |-> NoMods]>>
    ELSE <<[beatmap_id |-> b, ord |-> 1, pp |-> <<10>>, mods |-> {"HD"}],
           [beatmap_id |-> b, ord |-> 2, pp |-> <<20>>, mods |-> {"HD"}],
           [beatmap_id |-> b, ord |-> 3, pp |-> <<10>>, mods |-> NoMods],
           [beatmap_id |-> b, ord |-> 4, pp |-> <<20>>, mods |-> {"HD", "HR"}]>>

\* Mods::contains
contains(mods, filter) == filter \subseteq mods

\* mod.rs 656-658: .into_iter().filter(|s| s.mods.contains(mods)).collect()
RECURSIVE filter_mods(_, _)
filter_mods(scores, filter) ==
    IF scores = <<>> THEN <<>>
    ELSE (IF contains(Head(scores).mods, filter) THEN <<Head(scores)>> ELSE <<>>)
         \o filter_mods(Tail(scores), filter)

\* s.pp.unwrap_or(-1.0)
pp_or(s) == IF s.pp = NoPP THEN -1 ELSE Head(s.pp)

\* The place of x in a list sorted by falling pp: behind every score that
\* does not compare as greater under the comparator of mod.rs 659-663.
RECURSIVE insert_by_pp(_, _)
insert_by_pp(sorted, x) ==
    IF sorted = <<>> THEN <<x>>
    ELSE IF pp_or(Head(sorted)) >= pp_or(x)
         THEN <<Head(sorted)>> \o insert_by_pp(Tail(sorted), x)
         ELSE <<x>> \o sorted

RECURSIVE sort_from(_, _)
sort_from(scores, acc) ==
    IF scores = <<>> THEN acc
    ELSE sort_from(Tail(scores), insert_by_pp(acc, Head(scores)))

\* The scores sorted by rising pp.
sort_by_pp_rising(scores) == reversed(sort_from(scores, <<>>))

\* mod.rs 659-663: scores.sort_by(|a, b| b.pp.unwrap_or(-1.0)
\* .partial_cmp(&a.pp.unwrap_or(-1.0)).unwrap()), a stable sort.
sort_by_pp(scores) == sort_from(scores, <<>>)

Nobody == "nobody"

\* mod.rs 640-644: the identity the snapshot is stored for.
snapshot_owner(arg, who) ==
    IF arg.kind = "tagged" THEN arg.identity
    ELSE IF arg.kind = "none" THEN who
    ELSE Nobody

NoSnapshot == <<>>

\* OsuUserBests::save: the scores become the snapshot of the identity in the
\* mode.
save_bests(table, id, m, scores) == [table EXCEPT ![<<id, m>>] = scores]

VARIABLES
    user_bests, \* env.user_bests: <<identity, mode>> -> snapshot
    ckpc,       \* where the invocation stands
    ckarg,      \* username_arg
    ckauthor,   \* msg.author.id
    ckfilter,   \* mods
    ckbm,       \* bm, the pair load_beatmap returned
    ckacct,     \* user.id
    ckscores,   \* scores
    ckend       \* how the invocation ended

checkVars == <<user_bests, ckpc, ckarg, ckauthor, ckfilter, ckbm, ckacct, ckscores,
               ckend>>

CheckInit ==
    /\ user_bests = [k \in Identities \X Modes |-> NoSnapshot]
    /\ ckpc = "idle"
    /\ ckarg = NoArg
    /\ ckauthor = "alice"
    /\ ckfilter = NoMods
    /\ ckbm = NoEntry
    /\ ckacct = NoAccount
    /\ ckscores = <<>>
    /\ ckend = "none"

\* mod.rs 620-622: the command is invoked and calls load_beatmap(&env, msg)
\* for one of `msgs`.
CkCall(msgs) ==
    /\ ckpc = "idle"
    /\ LbCallWith(1, msgs)
    /\ ckpc' = "load"
    /\ UNCHANGED <<user_bests, ckarg, ckauthor, ckfilter, ckbm, ckacct, ckscores, ckend>>

\* mod.rs 624-644: without a beatmap the command says so and returns;
\* with one it reads the filter mods and the user argument.
CkLoaded ==
    /\ ckpc = "load"
    /\ LbReturn(1)
    /\ IF lbres[1].kind = "none"
       THEN /\ \E replyOk \in BOOLEAN :
                 ckend' = IF replyOk THEN "no_beatmap" ELSE "err_reply"
            /\ ckpc' = "ended"
            /\ UNCHANGED <<ckarg, ckauthor, ckfilter, ckbm>>
       ELSE /\ \E arg \in UsernameArgs, who \in Identities, filter \in Filters :
                 /\ ckarg' = arg
                 /\ ckauthor' = who
                 /\ ckfilter' = filter
            /\ ckbm' = lbres[1].bm
            /\ ckpc' = "lookup"
            /\ UNCHANGED ckend
    /\ UNCHANGED <<user_bests, ckacct, ckscores>>

\* mod.rs 645-668: the account, its scores on the beatmap, filtered and
\* sorted; every await may fail, and without a score left the command
\* replies "No scores found" and returns.
CkLookup ==
    /\ ckpc = "lookup"
    /\ \E fail \in {"none", "err_user_id", "err_user", "user_not_found", "err_scores"},
          u \in CheckAccounts, replyOk \in BOOLEAN :
         LET scores == sort_by_pp(filter_mods(
                           beatmap_scores(u, ckbm.bm.beatmap_id, ckbm.mode), ckfilter))
         IN  IF fail # "none"
             THEN /\ ckend' = fail
                  /\ ckpc' = "ended"
                  /\ UNCHANGED <<ckacct, ckscores>>
             ELSE /\ ckacct' = u
                  /\ ckscores' = scores
                  /\ IF scores = <<>>
                     THEN /\ ckend' = IF replyOk THEN "no_scores" ELSE "err_reply"
                          /\ ckpc' = "ended"
                     ELSE /\ ckpc' = "save"
                          /\ UNCHANGED ckend
    /\ UNCHANGED <<user_bests, ckarg, ckauthor, ckfilter, ckbm>>
    /\ UNCHANGED loadVars

\* mod.rs 670-676: the snapshot is stored for a known identity, whatever
\* the store answers (.pls_ok()).
CkSave ==
    /\ ckpc = "save"
    /\ LET owner == snapshot_owner(ckarg, ckauthor)
       IN  IF owner = Nobody
           THEN UNCHANGED user_bests
           ELSE \E storeOk \in BOOLEAN :
                  user_bests' = IF storeOk
                                THEN save_bests(user_bests, owner, ckbm.mode, ckscores)
                                ELSE user_bests
    /\ ckpc' = "display"
    /\ UNCHANGED <<ckarg, ckauthor, ckfilter, ckbm, ckacct, ckscores, ckend>>
    /\ UNCHANGED loadVars

\* mod.rs 678-680: style.display_scores(scores, m, ctx, msg).await?
CkDisplay ==
    /\ ckpc = "display"
    /\ \E sendOk \in BOOLEAN : ckend' = IF sendOk THEN "ok" ELSE "err_send"
    /\ ckpc' = "ended"
    /\ UNCHANGED <<user_bests, ckarg, ckauthor, ckfilter, ckbm, ckacct, ckscores>>
    /\ UNCHANGED loadVars

\* The command has returned; the next one may be invoked.
CkReturn ==
    /\ ckpc = "ended"
    /\ ckpc' = "idle"
    /\ ckarg' = NoArg
    /\ ckauthor' = "alice"
    /\ ckfilter' = NoMods
    /\ ckbm' = NoEntry
    /\ ckacct' = NoAccount
    /\ ckscores' = <<>>
    /\ ckend' = "none"
    /\ UNCHANGED user_bests
    /\ UNCHANGED loadVars

\* The caches and the command that clears them.
cacheVars == <<dcVars, metaVars, cleanVars>>
\* Everything the commands outside the caches work on.
commandVars == <<saveVars, loadVars, userVars, lengthVars, reactVars, showVars,
                 checkVars>>

vars == <<commandVars, cacheVars>>

Init ==
    /\ SaveInit /\ LoadInit /\ UserInit /\ LengthInit /\ ReactInit
    /\ ShowInit /\ CheckInit
    /\ DcInit /\ MetaInit /\ CleanInit

\* One invocation of `save`, with the clock and the account owners' plays.
Next ==
    \/ Invoke(1) /\ UNCHANGED <<loadVars, userVars, lengthVars, reactVars, showVars, checkVars, cacheVars>>
    \/ Post(1) /\ UNCHANGED <<loadVars, userVars, lengthVars, reactVars, showVars, checkVars, cacheVars>>
    \/ Signal(1) /\ UNCHANGED <<loadVars, userVars, lengthVars, reactVars, showVars, checkVars, cacheVars>>
    \/ Timeout(1) /\ UNCHANGED <<loadVars, userVars, lengthVars, reactVars, showVars, checkVars, cacheVars>>
    \/ AddUser(1) /\ UNCHANGED <<loadVars, userVars, lengthVars, reactVars, showVars, checkVars, cacheVars>>
    \/ Tick /\ UNCHANGED <<loadVars, userVars, lengthVars, reactVars, showVars, checkVars, cacheVars>>
    \/ \E u \in Accounts, m \in Modes, b \in BeatmapIds :
         Play(u, m, b) /\ UNCHANGED <<loadVars, userVars, lengthVars, reactVars, showVars, checkVars, cacheVars>>

Spec == Init /\ [][Next]_vars

\* Accounts the two racing invocations name, and the mode of the plays made
\* meanwhile.
RaceAccounts == {1, 2}
RaceMode == "Std"

\* Two invocations of `save` running concurrently, each reaction arriving
\* before its collector times out.
NextRace ==
    \/ \E a \in Attempts : InvokeWith(a, RaceAccounts) /\ UNCHANGED <<loadVars, userVars, lengthVars, reactVars, showVars, checkVars, cacheVars>>
    \/ \E a \in Attempts : Post(a) /\ UNCHANGED <<loadVars, userVars, lengthVars, reactVars, showVars, checkVars, cacheVars>>
    \/ \E a \in Attempts : Signal(a) /\ UNCHANGED <<loadVars, userVars, lengthVars, reactVars, showVars, checkVars, cacheVars>>
    \/ \E a \in Attempts : AddUser(a) /\ UNCHANGED <<loadVars, userVars, lengthVars, reactVars, showVars, checkVars, cacheVars>>
    \/ \E u \in RaceAccounts, b \in BeatmapIds :
         Play(u, RaceMode, b) /\ UNCHANGED <<loadVars, userVars, lengthVars, reactVars, showVars, checkVars, cacheVars>>

SpecRace == Init /\ [][NextRace]_vars

\* Calls of load_beatmap, one at a time, between the stores of other
\* commands.
NextLoad ==
    \/ LbCall(1) /\ UNCHANGED <<saveVars, userVars, lengthVars, reactVars, showVars, checkVars, cacheVars>>
    \/ LbFetch(1) /\ UNCHANGED <<saveVars, userVars, lengthVars, reactVars, showVars, checkVars, cacheVars>>
    \/ LbSave(1) /\ UNCHANGED <<saveVars, userVars, lengthVars, reactVars, showVars, checkVars, cacheVars>>
    \/ LbGet(1) /\ UNCHANGED <<saveVars, userVars, lengthVars, reactVars, showVars, checkVars, cacheVars>>
    \/ LbReturn(1) /\ UNCHANGED <<saveVars, userVars, lengthVars, reactVars, showVars, checkVars, cacheVars>>
    \/ \E ch \in Channels, bm \in OtherSaves :
         OtherCommandSaves(ch, bm) /\ UNCHANGED <<saveVars, userVars, lengthVars, reactVars, showVars, checkVars, cacheVars>>

SpecLoad == Init /\ [][NextLoad]_vars

\* The messages the racing calls of load_beatmap are made for: a reply to
\* nothing, or to a message with one short link in its text.
RaceMessages ==
    {NoReply} \cup {[replied |-> TRUE, content |-> <<l>>, embeds |-> <<>>] : l \in Links}

\* Concurrent calls of load_beatmap, between the stores of other commands.
NextLoadRace ==
    \/ \E t \in LbTasks :
         LbCallWith(t, RaceMessages) /\ UNCHANGED <<saveVars, userVars, lengthVars, reactVars, showVars, checkVars, cacheVars>>
    \/ \E t \in LbTasks :
         LbFetch(t) /\ UNCHANGED <<saveVars, userVars, lengthVars, reactVars, showVars, checkVars, cacheVars>>
    \/ \E t \in LbTasks :
         LbSave(t) /\ UNCHANGED <<saveVars, userVars, lengthVars, reactVars, showVars, checkVars, cacheVars>>
    \/ \E t \in LbTasks :
         LbGet(t) /\ UNCHANGED <<saveVars, userVars, lengthVars, reactVars, showVars, checkVars, cacheVars>>
    \/ \E t \in LbTasks :
         LbReturn(t) /\ UNCHANGED <<saveVars, userVars, lengthVars, reactVars, showVars, checkVars, cacheVars>>
    \/ \E ch \in Channels, bm \in OtherSaves :
         OtherCommandSaves(ch, bm) /\ UNCHANGED <<saveVars, userVars, lengthVars, reactVars, showVars, checkVars, cacheVars>>

SpecLoadRace == Init /\ [][NextLoadRace]_vars

\* Short links of every shape: with or without a mode tag, which may name
\* no mode, and with or without a mods token, which may name no mods.
ModeLinks == [id : BeatmapIds, mode : {"none", "osu", "taiko", "bogus"},
              mods : {"none", "HD", "ZZ"}]
ModeMessages ==
    {NoReply} \cup {[replied |-> TRUE, content |-> <<l>>, embeds |-> <<>>] : l \in ModeLinks}

\* Calls of load_beatmap, one at a time, for replies to short links of every
\* shape.
NextLoadMode ==
    \/ LbCallWith(1, ModeMessages) /\ UNCHANGED <<saveVars, userVars, lengthVars, reactVars, showVars, checkVars, cacheVars>>
    \/ LbFetch(1) /\ UNCHANGED <<saveVars, userVars, lengthVars, reactVars, showVars, checkVars, cacheVars>>
    \/ LbSave(1) /\ UNCHANGED <<saveVars, userVars, lengthVars, reactVars, showVars, checkVars, cacheVars>>
    \/ LbGet(1) /\ UNCHANGED <<saveVars, userVars, lengthVars, reactVars, showVars, checkVars, cacheVars>>
    \/ LbReturn(1) /\ UNCHANGED <<saveVars, userVars, lengthVars, reactVars, showVars, checkVars, cacheVars>>

SpecLoadMode == Init /\ [][NextLoadMode]_vars

\* Calls of to_user_id_query, one at a time, between `forcesave` commands.
NextUser ==
    \/ UqCall(1) /\ UNCHANGED <<saveVars, loadVars, lengthVars, reactVars, showVars, checkVars, cacheVars>>
    \/ UqRead(1) /\ UNCHANGED <<saveVars, loadVars, lengthVars, reactVars, showVars, checkVars, cacheVars>>
    \/ UqReturn(1) /\ UNCHANGED <<saveVars, loadVars, lengthVars, reactVars, showVars, checkVars, cacheVars>>
    \/ \E target \in Identities, name \in Accounts \cup {NoAccount} :
         ForceSave(target, name) /\ UNCHANGED <<loadVars, userVars, lengthVars, reactVars, showVars, checkVars, cacheVars>>

SpecUser == Init /\ [][NextUser]_vars

\* Calls of calculate_weighted_map_length, one at a time.
NextLength ==
    \/ WlCall /\ UNCHANGED <<saveVars, loadVars, userVars, reactVars, showVars, checkVars, cacheVars>>
    \/ \E p \in 1..MaxScores : WlComplete(p) /\ UNCHANGED <<saveVars, loadVars, userVars, reactVars, showVars, checkVars, cacheVars>>
    \/ WlFinish /\ UNCHANGED <<saveVars, loadVars, userVars, reactVars, showVars, checkVars, cacheVars>>
    \/ WlReturn /\ UNCHANGED <<saveVars, loadVars, userVars, reactVars, showVars, checkVars, cacheVars>>

SpecLength == Init /\ [][NextLength]_vars

\* Concurrent callers of the oppai cache, and `cleancache --oppai`.
NextOppai ==
    \/ \E c \in DcCallers, id \in ChartIds :
         DcGet(c, id) /\ UNCHANGED <<commandVars, metaVars, cleanVars>>
    \/ \E id \in ChartIds :
         DcComplete(id) /\ UNCHANGED <<commandVars, metaVars, cleanVars>>
    \/ \E c \in DcCallers : DcDone(c) /\ UNCHANGED <<commandVars, metaVars, cleanVars>>
    \/ CleanCache("--oppai") /\ UNCHANGED commandVars

SpecOppai == Init /\ [][NextOppai]_vars

\* Calls of the beatmap cache, one after another, and clean_cache.
NextMeta ==
    \/ \E id \in MetaIds : McCall(id) /\ UNCHANGED <<commandVars, dcVars, cleanVars>>
    \/ McStore /\ UNCHANGED <<commandVars, dcVars, cleanVars>>
    \/ McRemote /\ UNCHANGED <<commandVars, dcVars, cleanVars>>
    \/ McReturn /\ UNCHANGED <<commandVars, dcVars, cleanVars>>
    \/ \E arg \in CleanArgs : CleanCache(arg) /\ UNCHANGED commandVars

SpecMeta == Init /\ [][NextMeta]_vars

\* clean_cache with any argument, between the calls of one caller of each
\* cache, both for the first beatmap.
NextClean ==
    \/ McCall(1) /\ UNCHANGED <<commandVars, dcVars, cleanVars>>
    \/ McStore /\ UNCHANGED <<commandVars, dcVars, cleanVars>>
    \/ McRemote /\ UNCHANGED <<commandVars, dcVars, cleanVars>>
    \/ McReturn /\ UNCHANGED <<commandVars, dcVars, cleanVars>>
    \/ DcGet(1, 1) /\ UNCHANGED <<commandVars, metaVars, cleanVars>>
    \/ DcComplete(1) /\ UNCHANGED <<commandVars, metaVars, cleanVars>>
    \/ DcDone(1) /\ UNCHANGED <<commandVars, metaVars, cleanVars>>
    \/ \E arg \in CleanArgs : CleanCache(arg) /\ UNCHANGED commandVars

SpecClean == Init /\ [][NextClean]_vars

\* The account the invocations under reactions name.
ReactAccounts == {1}

\* Two invocations of `save` while reactions of every kind arrive, each
\* before a collector times out.
NextReact ==
    \/ \E a \in Attempts :
         InvokeWith(a, ReactAccounts) /\ UNCHANGED <<loadVars, userVars, lengthVars, reactVars, showVars, checkVars, cacheVars>>
    \/ \E a \in Attempts :
         Post(a) /\ UNCHANGED <<loadVars, userVars, lengthVars, reactVars, showVars, checkVars, cacheVars>>
    \/ \E r \in Reactions :
         React(r) /\ UNCHANGED <<loadVars, userVars, lengthVars, showVars, checkVars, cacheVars>>
    \/ \E a \in Attempts :
         AddUser(a) /\ UNCHANGED <<loadVars, userVars, lengthVars, reactVars, showVars, checkVars, cacheVars>>
    \/ \E u \in ReactAccounts, b \in BeatmapIds :
         Play(u, RaceMode, b) /\ UNCHANGED <<loadVars, userVars, lengthVars, reactVars, showVars, checkVars, cacheVars>>

SpecReact == Init /\ [][NextReact]_vars

\* `recent` and `top`, one invocation after another.
NextShow ==
    \/ ShCall /\ UNCHANGED <<saveVars, userVars, lengthVars, reactVars, checkVars, cacheVars>>
    \/ ShLookup /\ UNCHANGED <<saveVars, userVars, lengthVars, reactVars, checkVars, cacheVars>>
    \/ ShSend /\ UNCHANGED <<saveVars, userVars, lengthVars, reactVars, checkVars, cacheVars>>
    \/ ShSave /\ UNCHANGED <<saveVars, userVars, lengthVars, reactVars, checkVars, cacheVars>>
    \/ ShList /\ UNCHANGED <<saveVars, userVars, lengthVars, reactVars, checkVars, cacheVars>>
    \/ ShReturn /\ UNCHANGED <<saveVars, userVars, lengthVars, reactVars, checkVars, cacheVars>>

SpecShow == Init /\ [][NextShow]_vars

\* `check`, one invocation after another, each with its call of
\* load_beatmap.
NextCheck ==
    \/ CkCall(RaceMessages) /\ UNCHANGED <<saveVars, userVars, lengthVars, reactVars, showVars, cacheVars>>
    \/ LbFetch(1) /\ UNCHANGED <<saveVars, userVars, lengthVars, reactVars, showVars, checkVars, cacheVars>>
    \/ LbSave(1) /\ UNCHANGED <<saveVars, userVars, lengthVars, reactVars, showVars, checkVars, cacheVars>>
    \/ LbGet(1) /\ UNCHANGED <<saveVars, userVars, lengthVars, reactVars, showVars, checkVars, cacheVars>>
    \/ CkLoaded /\ UNCHANGED <<saveVars, userVars, lengthVars, reactVars, showVars, cacheVars>>
    \/ CkLookup /\ UNCHANGED <<saveVars, userVars, lengthVars, reactVars, showVars, cacheVars>>
    \/ CkSave /\ UNCHANGED <<saveVars, userVars, lengthVars, reactVars, showVars, cacheVars>>
    \/ CkDisplay /\ UNCHANGED <<saveVars, userVars, lengthVars, reactVars, showVars, cacheVars>>
    \/ CkReturn /\ UNCHANGED <<saveVars, userVars, lengthVars, reactVars, showVars, cacheVars>>

SpecCheck == Init /\ [][NextCheck]_vars

(***************************************************************************)
(* The `save` linking protocol: claims C1-C8.                              *)
(***************************************************************************)
\* Invocations whose loop ended with `break true`.
PostConfirm == {"confirmed", "done", "err_store"}

\* The new_user calls of invocation a that the store applied.
WritesBy(a) == Cardinality({i \in 1..Len(writes) : writes[i].by = a})

\* The row add_user is to write for invocation a.
LinkOf(a) == [id |-> cand[a], failures |-> 0]

\* The account's most recent play, in whatever mode.
LatestPlay(u) ==
    IF lastMode[u] = "none" THEN NoPlay
    ELSE [map |-> recent[u][lastMode[u]], mode |-> lastMode[u]]

\* A reaction of invocation a is collected in this step and the re-fetch of
\* the latest play succeeds, as does the removal of a rejected reaction.
SignalChecked(a) ==
    /\ pc[a] = "awaiting"
    /\ nsig'[a] = nsig[a] + 1
    /\ pc'[a] \notin {"err_check", "err_delete"}

C2_WaitEndsWithinWindow ==
    \A a \in Attempts : pc[a] = "awaiting" => elapsed[a] <= TIMEOUT_SECS

\* C3: until the protocol has reached Confirmed (in Offered, in
\* AwaitingConfirmation, and on every exit without a confirmation) it has
\* written nothing and SavedLink is what it was before the invocation.
C3_NoLinkBeforeConfirmed ==
    \A a \in Attempts :
      (pc[a] # "idle" /\ pc[a] \notin PostConfirm) =>
        /\ WritesBy(a) = 0
        /\ saved = saved0

\* C3 witness: an invocation that collected a reaction, rejected it, timed
\* out, and left the author's earlier link in place.
C3_Witness ==
    \E a \in Attempts :
      /\ pc[a] = "expired"
      /\ nsig[a] > 0
      /\ author[a] = "alice"
      /\ saved["alice"] = OldLink

\* C4: when the window elapses with no confirming signal the protocol ends
\* in Expired with nothing written, and a confirming signal arriving after
\* the window (TIMEOUT_SECS after the wait began) cannot lead to Confirmed.
C4_NoConfirmationAfterWindow ==
    \A a \in Attempts :
      /\ pc[a] = "expired" => (WritesBy(a) = 0 /\ saved = saved0)
      /\ pc[a] \in PostConfirm => elapsed[a] <= TIMEOUT_SECS

\* C5 as claimed: once Confirmed is reached and `save` has returned, exactly
\* one SavedLink write has happened and the author's link is the candidate
\* account with failure count 0.
C5_ConfirmedAlwaysLinks ==
    \A a \in Attempts :
      pc[a] \in {"done", "err_store"} =>
        /\ WritesBy(a) = 1
        /\ saved[author[a]] = LinkOf(a)

\* C5, amended: after Confirmed `save` issues one new_user call; when the
\* store accepts it, it is the only write of the invocation, it maps the
\* author to the candidate account with failure count 0 and leaves every
\* other identity's link alone; when the store rejects it, `save` ends with
\* that error and SavedLink is unchanged.  No invocation writes twice.
C5_ConfirmedLinksUnlessStoreFails ==
    \A a \in Attempts :
      /\ WritesBy(a) <= 1
      /\ pc[a] = "done" =>
           /\ WritesBy(a) = 1
           /\ \A i \in 1..Len(writes) :
                writes[i].by = a =>
                  writes[i].row = [user_id |-> author[a], id |-> cand[a], failures |-> 0]
           /\ saved[author[a]] = LinkOf(a)
           /\ \A o \in Identities \ {author[a]} : saved[o] = saved0[o]
      /\ pc[a] = "err_store" => (WritesBy(a) = 0 /\ saved = saved0)

\* C5 witness: a confirmed invocation overwrote the author's earlier link.
C5_Witness ==
    \E a \in Attempts :
      /\ pc[a] = "done"
      /\ saved0[author[a]] = OldLink
      /\ saved[author[a]] = LinkOf(a)

\* C6: when the account's most recent play is the challenge beatmap in the
\* challenge mode and the author's reaction is collected within the window,
\* the protocol reaches Confirmed, whatever the challenge mode.
C6_MatchingPlayConfirms ==
    [][\A a \in Attempts :
         (SignalChecked(a) /\ LatestPlay(cand[a]) = challenge[a]) =>
           pc'[a] = "confirmed"]_vars

\* The index in ModeOrder of m.
ModeIndex(m) == CHOOSE i \in 1..Len(ModeOrder) : ModeOrder[i] = m

\* C7: the challenge is one of the scores of the first mode, in the order
\* Std, Taiko, Catch, Mania, in which the account has a score, and no later
\* mode was queried; with no score in any mode there is no challenge, no
\* wait and no write.
C7_ChallengeFromFirstModeWithScore ==
    \A a \in Attempts :
      /\ pc[a] \in {"offered", "awaiting", "expired", "err_post", "err_check",
                    "err_delete"} \cup PostConfirm
           => challenge[a] # NoChallenge
      /\ challenge[a] # NoChallenge =>
           /\ challenge[a].mode \in Modes
           /\ challenge[a].map \in user_best(cand[a], challenge[a].mode)
           /\ \A j \in 1..(ModeIndex(challenge[a].mode) - 1) :
                user_best(cand[a], ModeOrder[j]) = {}
           /\ queried[a] = SubSeq(ModeOrder, 1, ModeIndex(challenge[a].mode))
      /\ (cand[a] # NoAccount /\ \A m \in Modes : user_best(cand[a], m) = {}) =>
           /\ pc[a] \in {"noplays", "err_best"}
           /\ challenge[a] = NoChallenge
           /\ WritesBy(a) = 0
           /\ saved = saved0

\* C7 witness: an account with scores in Catch and Mania only is challenged
\* in Catch, after Std, Taiko and Catch were queried.
C7_Witness ==
    \E a \in Attempts :
      /\ pc[a] = "awaiting"
      /\ challenge[a].mode = "Catch"
      /\ queried[a] = <<"Std", "Taiko", "Catch">>
      /\ user_best(cand[a], "Mania") # {}

\* Both invocations are by one identity, for different accounts, and both
\* were confirmed and have returned.
BothConfirmed ==
    /\ pc[1] = "done"
    /\ pc[2] = "done"
    /\ author[1] = author[2]
    /\ cand[1] # cand[2]

\* C8 as claimed: of two concurrent attempts by one identity that both reach
\* Confirmed, the first to reach Confirmed wins.
C8_FirstConfirmedWins ==
    BothConfirmed => saved[author[1]].id = cand[confirmed[1]]

\* C8, amended: the two attempts run without mutual exclusion, both writes
\* are applied, and the identity's SavedLink is the account of the attempt
\* whose write the store applied last.
C8_LastWriterWins ==
    BothConfirmed =>
      /\ Len(writes) = 2
      /\ saved[author[1]] = LinkOf(writes[Len(writes)].by)

\* C8 witness: both attempts were confirmed, and the one confirmed first
\* also wrote first, so the link is the other one's account.
C8_Witness ==
    /\ BothConfirmed
    /\ confirmed = <<1, 2>>
    /\ writes[1].by = 1
    /\ saved[author[1]].id = cand[2]

(***************************************************************************)
(* load_beatmap: claims C9 and C10.                                        *)
(***************************************************************************)
\* The texts of a list of embeds in the order of the search: per embed its
\* description, if it has one, then its fields.
RECURSIVE EmbedTexts(_)
EmbedTexts(embeds) ==
    IF embeds = <<>> THEN <<>>
    ELSE Head(embeds).description \o Head(embeds).fields \o EmbedTexts(Tail(embeds))

\* The short link of the first text, in that order after the replied
\* message's own text, that has one.
PriorityLink(m) ==
    LET texts == <<m.content>> \o EmbedTexts(m.embeds)
        with == {i \in 1..Len(texts) : texts[i] # <<>>}
    IN  IF ~m.replied \/ with = {} THEN NoCaps
        ELSE Head(texts[CHOOSE i \in with : \A j \in with : i <= j])

\* Call t returns in this step.
Returns(t) == lbpc[t] # "ret" /\ lbpc'[t] = "ret"

\* C9: load_beatmap works with the first short link of the replied message,
\* looked for in its text, then per embed in the description, then in the
\* fields; when the remote service resolves that id the call returns that
\* beatmap, with the link's mods, whatever the channel's slot of
\* last_beatmaps holds; in every other case it returns what the slot holds,
\* or nothing.
C9_ReplyLinkBeforeLastBeatmap ==
    [][\A t \in LbTasks : Returns(t) =>
         LET link == PriorityLink(lbmsg[t])
             slot == last_beatmaps[lbch[t]]
         IN  /\ lbcaps[t] = link
             /\ IF link # NoCaps /\ lbfetch[t] = "found"
                THEN /\ lbres'[t].from = "reply"
                     /\ lbres'[t].bm.bm.beatmap_id = link.id
                     /\ lbres'[t].mods = link.mods
                ELSE /\ lbres'[t].from # "reply"
                     /\ lbres'[t].kind = "some" =>
                          lbres'[t].from = "cache" /\ lbres'[t].bm = slot]_vars

\* C9 witness: the replied message has no link in its text and none in the
\* first embed's description, the link of that embed's field resolved and was
\* returned, another link follows in the second embed, and the channel's slot
\* holds another beatmap.
C9_Witness ==
    \E t \in LbTasks :
        /\ lbpc[t] = "ret"
        /\ lbres[t].from = "reply"
        /\ lbmsg[t].content = <<>>
        /\ Len(lbmsg[t].embeds) = 2
        /\ lbmsg[t].embeds[1].description = NoDesc
        /\ lbmsg[t].embeds[1].fields = << <<LinkB>> >>
        /\ lbmsg[t].embeds[2].description = Some(<<LinkA>>)
        /\ lbres[t].bm.bm.beatmap_id = LinkB.id
        /\ last_beatmaps[lbch[t]] \in OtherSaves

\* C10: a beatmap that load_beatmap returns from a replied-to message is in
\* the channel's slot of last_beatmaps, as long as no one else has put to the
\* channel since, whatever the store answered to the write.
C10_ReplyBeatmapIsInSlot ==
    \A t \in LbTasks :
        (lbpc[t] = "ret" /\ lbres[t].from = "reply" /\ lbclean[t]) =>
            get_beatmap(last_beatmaps, lbch[t]) = lbres[t].bm

(***************************************************************************)
(* load_beatmap: claims C11 and C13.                                       *)
(***************************************************************************)
\* C11: a call of load_beatmap for a message that replies to nothing asks
\* the remote service nothing and writes nothing to last_beatmaps, and with
\* an empty slot for the channel it returns None.  In general the call
\* returns None exactly when neither source yields a beatmap: the remote
\* lookup of the reply's link returned none (no link, no such beatmap, or
\* the lookup failed), and the read of the channel's slot returned none (the
\* slot is empty, or the read failed).
C11_NoneIffNothingYields ==
    [][\A t \in LbTasks :
         /\ ~lbmsg[t].replied => lbpc[t] \notin {"fetch", "save"}
         /\ Returns(t) =>
              LET slot == last_beatmaps[lbch[t]]
              IN  /\ lbres'[t].kind = "none" <=>
                       /\ lbfetch[t] # "found"
                       /\ ~(lbread'[t] = "ok" /\ slot # NoEntry)
                  /\ ~lbmsg[t].replied =>
                       /\ lbfetch[t] = "none"
                       /\ last_beatmaps' = last_beatmaps
                       /\ slot = NoEntry => lbres'[t] = NoResult]_vars

\* C11 witness: a call in the second channel, whose slot is empty while the
\* first channel's is not, for a message that replies to nothing, has
\* returned None after reading the slot.
C11_Witness ==
    \E t \in LbTasks :
        /\ lbpc[t] = "ret"
        /\ ~lbmsg[t].replied
        /\ lbch[t] = "c2"
        /\ last_beatmaps["c2"] = NoEntry
        /\ last_beatmaps["c1"] # NoEntry
        /\ lbread[t] = "ok"
        /\ lbres[t] = NoResult

\* C13: a call of load_beatmap whose remote lookup met a transport error, or
\* whose read of the channel's slot met a store error, returns neither None
\* nor the slot's beatmap: the failure reaches the caller.
C13_FailuresReachTheCaller ==
    \A t \in LbTasks :
        (lbpc[t] = "ret" /\ (lbfetch[t] = "err" \/ lbread[t] = "err")) =>
            lbres[t].kind \notin {"none", "some"}

(***************************************************************************)
(* to_user_id_query: claim C12.                                            *)
(***************************************************************************)
\* Call t of to_user_id_query returns in this step.
UqReturns(t) == uqpc[t] # "ret" /\ uqpc'[t] = "ret"

\* C12: to_user_id_query hands a raw token on as UserID::from_string(token)
\* without reading saved_users; for a mention it answers the account id of
\* the mentioned identity's saved row, and for no argument that of the
\* author's own row.  It fails with "No saved account found" exactly when
\* that read succeeds and finds no row, so never for a raw token; the only
\* other failure is the store's own error on the read.
C12_UserReferencePriority ==
    [][\A t \in UqTasks : UqReturns(t) =>
         LET s == uqarg'[t]
             r == uqres'[t]
             subject == IF s.kind = "tagged" THEN s.identity ELSE uqauthor'[t]
         IN  IF s.kind = "raw"
             THEN /\ uqread'[t] = "none"
                  /\ r.kind = "ok"
                  /\ r.uid = from_string(s.token)
             ELSE /\ uqread'[t] # "none"
                  /\ r.kind = "no_saved_account" <=>
                       (uqread'[t] = "ok" /\ saved[subject] = NoLink)
                  /\ r.kind = "err_store" <=> uqread'[t] = "err"
                  /\ r.kind = "ok" <=>
                       (uqread'[t] = "ok" /\ saved[subject] # NoLink)
                  /\ r.kind = "ok" => r.uid = UserIDOfId(saved[subject].id)]_vars

\* C12 witness: alice mentions bob, who has a saved account other than hers,
\* and the call answers bob's account id.
C12_Witness ==
    \E t \in UqTasks :
        /\ uqpc[t] = "ret"
        /\ uqauthor[t] = "alice"
        /\ uqarg[t] = Tagged("bob")
        /\ saved["bob"] # NoLink
        /\ saved["bob"].id # saved["alice"].id
        /\ uqres[t] = [kind |-> "ok", uid |-> UserIDOfId(saved["bob"].id)]

(***************************************************************************)
(* calculate_weighted_map_length: claims C14 and C15.                      *)
(***************************************************************************)
\* A whole number of seconds.
Seconds(n) == n * LengthUnit

\* duration(i) x 0.975^i for the 0-indexed rank i of a list of scores, where
\* duration(i) is the mods-adjusted drain length of the i-th score's beatmap.
WeightedLength(scores, i) ==
    LET sc == scores[i + 1]
        thirds == IF sc.mods = "DT" THEN 2 * drain_length(sc.beatmap_id)
                  ELSE 3 * drain_length(sc.beatmap_id)
    IN  thirds * SCALING_NUM ^ i * (LengthUnit \div (3 * SCALING_DEN ^ i))

\* The sum of WeightedLength over a set of ranks.
RECURSIVE SumOverRanks(_, _)
SumOverRanks(scores, ranks) ==
    IF ranks = {} THEN 0
    ELSE LET i == CHOOSE r \in ranks : TRUE
         IN  WeightedLength(scores, i) + SumOverRanks(scores, ranks \ {i})

NoMod(id) == [beatmap_id |-> id, mods |-> "NM"]

\* C14: when calculate_weighted_map_length returns a length, it is the sum
\* over all 0-indexed ranks i of duration(i) x 0.975^i: 0.0 for no scores,
\* 180.0 for one score on a map of 180 s, 295.0 for scores on maps of 100 s
\* and 200 s.
C14_WeightedSumOfLengths ==
    wlpc = "ok" =>
        /\ wlacc = SumOverRanks(wlscores, 0..(Len(wlscores) - 1))
        /\ wlscores = <<>> => wlacc = 0
        /\ wlscores = <<NoMod(3)>> => wlacc = Seconds(180)
        /\ wlscores = <<NoMod(1), NoMod(2)>> => wlacc = Seconds(295)

\* C14 witness: the call for scores on the maps of 100 s and 200 s, without
\* mods, has returned 295 s.
C14_Witness ==
    /\ wlpc = "ok"
    /\ wlscores = <<NoMod(1), NoMod(2)>>
    /\ wlacc = Seconds(295)

\* C15: in whatever order the lookups have completed so far, the accumulator
\* is the sum, over the scores whose lookup has completed, of the score's
\* duration weighted by 0.975 to the power of its 0-indexed position in the
\* input list.
C15_WeightByOriginalRank ==
    wlpc \in {"running", "ok"} =>
        /\ wlacc = SumOverRanks(wlscores, {wlorder[k] - 1 : k \in 1..Len(wlorder)})
        /\ \A j, k \in 1..Len(wlorder) : j # k => wlorder[j] # wlorder[k]
        /\ wlpc = "ok" => {wlorder[k] : k \in 1..Len(wlorder)} = 1..Len(wlscores)

\* C15 witness: three scores of different weighted lengths, whose lookups
\* completed last to first, have been summed.
C15_Witness ==
    /\ wlpc = "ok"
    /\ wlscores = <<NoMod(1), NoMod(2), [beatmap_id |-> 3, mods |-> "DT"]>>
    /\ wlorder = <<3, 2, 1>>

(***************************************************************************)
(* DifficultyCache: claim C16.                                             *)
(***************************************************************************)
\* The callers awaiting the chart of id.
Waiters(id) == {c \in DcCallers : dcpc[c] = "waiting" /\ dcid[c] = id}

\* C16: a download and parse of a beatmap's chart starts only when the chart
\* is neither memoized nor being computed, so the concurrent requests for an
\* uncached id share one computation: every caller awaiting the id awaits
\* the one download in flight, and all callers answered by the same download
\* hold the same result.
C16_SingleFlight ==
    [][\A id \in ChartIds :
         /\ downloads'[id] # downloads[id] =>
              /\ downloads'[id] = downloads[id] + 1
              /\ Waiters(id) = {}
              /\ charts[id].state = "empty"
         /\ Waiters(id) # {} <=> charts[id].state = "inflight"
         /\ \A c \in Waiters(id) : dcjoin[c] = downloads[id]
         /\ \A c, d \in DcCallers :
              ( /\ dcpc[c] = "got" /\ dcpc[d] = "got"
                /\ dcid[c] = id /\ dcid[d] = id
                /\ dcjoin[c] # 0 /\ dcjoin[c] = dcjoin[d] ) => dcres[c] = dcres[d]]_vars

\* C16 witness: all the callers asked for the same uncached chart while it
\* was being computed, one download was made, and all hold its chart.
C16_Witness ==
    \E id \in ChartIds :
        /\ downloads[id] = 1
        /\ \A c \in DcCallers :
             /\ dcpc[c] = "got"
             /\ dcid[c] = id
             /\ dcjoin[c] = 1
             /\ dcres[c] = [kind |-> "ok", chart |-> [id |-> id, download |-> 1]]

(***************************************************************************)
(* BeatmapMetaCache and clean_cache: claims C17, C18 and C19.              *)
(***************************************************************************)
\* C17: a call of get_beatmap(id) that follows a successful call for the
\* same id, with no clear() since that call started, makes no RemoteClient
\* call and returns the beatmap as well.
C17_SecondCallIsAHit ==
    ( /\ mcpc = "done"
      /\ mcprev.id = mcid
      /\ mcprev.kind = "ok"
      /\ ~mcprev.clears
      /\ ~mcclears ) => (mcremote = 0 /\ mcres = "ok")

\* C17 witness: the first call fetched the beatmap remotely, the second one
\* for the same id has ended without a remote call.
C17_Witness ==
    /\ mcpc = "done"
    /\ mcprev = [id |-> mcid, kind |-> "ok", remote |-> 1, clears |-> FALSE]
    /\ ~mcclears
    /\ mcremote = 0
    /\ mcres = "ok"

\* C18 as claimed: the first call of get_beatmap started after a clear()
\* makes exactly one RemoteClient call.
C18_OneFetchAfterClear ==
    (mcpc = "done" /\ mcfirst # "no") => mcremote = 1

\* C18, amended: the first call of get_beatmap started after a clear() that
\* ran while no get_beatmap call was in flight makes exactly one
\* RemoteClient call; after a clear() that ran during a call it makes at
\* most one.
C18_OneFetchAfterQuietClear ==
    /\ (mcpc = "done" /\ mcfirst = "idle") => mcremote = 1
    /\ (mcpc = "done" /\ mcfirst = "busy") => mcremote <= 1

\* C18 witness: a beatmap fetched and stored before the clear() is fetched
\* again by the call that follows it.
C18_Witness ==
    /\ mcpc = "done"
    /\ mcfirst = "idle"
    /\ mcprev.id = mcid
    /\ mcprev.kind = "ok"
    /\ mcremote = 1
    /\ mcres = "ok"

\* clean_cache runs in this step.
CleanStep == cleanruns' # cleanruns

\* C19 as claimed: every run of clean_cache leaves the beatmap cache empty,
\* and changes the oppai cache only when its argument is exactly "--oppai".
C19_AlwaysClearsBeatmaps ==
    [][CleanStep =>
         /\ metaStore' = {}
         /\ cleaned'.arg # "--oppai" => UNCHANGED dcVars
         /\ charts' # charts => cleaned'.arg = "--oppai"]_vars

\* C19, amended: every run of clean_cache first clears the beatmap cache; if
\* that fails the run ends with the error and neither cache has changed.
\* Otherwise the beatmap cache is empty, and the oppai cache is cleared when
\* the argument is exactly "--oppai" (unless that clear fails in turn); with
\* any other argument, or none, the oppai cache is as it was.
C19_ClearsBeatmapsThenOppaiOnFlag ==
    [][CleanStep =>
         LET r == cleaned'
         IN  /\ r.ended = "err_beatmaps" => (metaStore' = metaStore /\ UNCHANGED dcVars)
             /\ r.ended # "err_beatmaps" => metaStore' = {}
             /\ r.arg # "--oppai" =>
                  (UNCHANGED dcVars /\ r.ended \in {"err_beatmaps", "ok_beatmaps"})
             /\ r.arg = "--oppai" =>
                  /\ r.ended \in {"err_beatmaps", "err_oppai", "ok_both"}
                  /\ r.ended = "ok_both" =>
                       \A id \in ChartIds : charts'[id].state # "ready"
                  /\ r.ended = "err_oppai" => UNCHANGED dcVars
             /\ charts' # charts => r.arg = "--oppai"]_vars

\* C19 witness: clean_cache ran with an argument that only starts with
\* "--oppai"; the beatmap stored by the last get_beatmap call is gone and a
\* memoized chart is still there.
C19_Witness ==
    /\ cleaned = [arg |-> "--oppai now", ended |-> "ok_beatmaps"]
    /\ mcpc = "idle"
    /\ mcres = "ok"
    /\ mcclears
    /\ metaStore = {}
    /\ \E id \in ChartIds : charts[id].state = "ready"

(***************************************************************************)
(* last_beatmaps: claim C20.                                               *)
(***************************************************************************)
\* Call t of load_beatmap stores its beatmap in this step.
Puts(t) == lbpc[t] = "save" /\ lbpc'[t] = "ret"

\* C20: a channel's slot of last_beatmaps changes only by a put to that
\* channel, and then holds exactly the (beatmap, mode) pair of that put: the
\* pair a call of load_beatmap in that channel resolved and returns, or the
\* pair another command stores.  So the slot always holds the whole pair of
\* the put applied last, also when calls in one channel race, and a put to
\* one channel leaves the slot of every other channel as it was.
C20_OneSlotPerChannel ==
    [][LET changed == {ch \in Channels : last_beatmaps'[ch] # last_beatmaps[ch]}
       IN  /\ Cardinality(changed) <= 1
           /\ \A t \in LbTasks : Puts(t) =>
                /\ changed \subseteq {lbch[t]}
                /\ last_beatmaps'[lbch[t]] \in {last_beatmaps[lbch[t]], lbres'[t].bm}
                /\ lbres'[t].bm # NoEntry
           /\ \A ch \in changed :
                \/ \E t \in LbTasks :
                     Puts(t) /\ lbch[t] = ch /\ last_beatmaps'[ch] = lbres'[t].bm
                \/ lbpc' = lbpc /\ last_beatmaps'[ch] \in OtherSaves]_vars

\* C20 witness: two calls of load_beatmap raced in one channel with
\* different beatmaps; the slot holds the pair of the one that stored last,
\* an earlier put by the other was overwritten, and the other channel's slot
\* is still empty.
C20_Witness ==
    \E t, o \in LbTasks :
        /\ t # o
        /\ lbpc[t] = "ret" /\ lbpc[o] = "ret"
        /\ lbch[t] = "c1" /\ lbch[o] = "c1"
        /\ lbres[t].from = "reply" /\ lbres[o].from = "reply"
        /\ lbres[t].bm # lbres[o].bm
        /\ lbclean[t]
        /\ ~lbclean[o]
        /\ last_beatmaps["c1"] = lbres[t].bm
        /\ last_beatmaps["c2"] = NoEntry

(***************************************************************************)
(* The reactions `save` listens to: claim C21.                             *)
(***************************************************************************)
\* The loop body of invocation a runs in this step: the latest play is
\* fetched again.
Refetches(a) ==
    /\ pc[a] = "awaiting"
    /\ nsig'[a] # nsig[a] \/ pc'[a] \in {"confirmed", "err_check", "err_delete"}

\* C21: the re-fetch of the latest play, and with it every way to
\* Confirmed, is triggered only by a reaction of the requesting identity
\* itself, on the challenge message of that invocation, with the offered
\* symbol; any other reaction leaves every invocation of `save` as it is.
C21_OnlyOwnSignalIsProcessed ==
    [][/\ \A a \in Attempts : Refetches(a) =>
            /\ reaction'.who = author[a]
            /\ reaction'.msg = a
            /\ reaction'.emoji = OfferedEmoji
       /\ \A a \in Attempts : pc'[a] = "confirmed" /\ pc[a] # "confirmed" => Refetches(a)
       /\ (/\ reaction' # reaction
           /\ \A a \in Attempts : pc[a] = "awaiting" =>
              \/ reaction'.who # author[a]
              \/ reaction'.msg # a
              \/ reaction'.emoji # OfferedEmoji)
          => UNCHANGED <<pc, nsig, confirmed, saved>>]_<<saveVars, reactVars>>

\* C21 witness: another identity put the offered symbol on the challenge
\* message of invocation 1 while the account's latest play was the
\* challenge, and the invocation is still waiting with nothing collected.
C21_Witness ==
    /\ pc[1] = "awaiting"
    /\ nsig[1] = 0
    /\ check(cand[1], challenge[1].map)
    /\ reaction.msg = 1
    /\ reaction.emoji = OfferedEmoji
    /\ reaction.who \in Identities \ {author[1]}

(***************************************************************************)
(* A failed re-fetch: claim C22.                                           *)
(***************************************************************************)
\* C22: when the re-fetch of the latest play fails after a reaction
\* (check(..).await?), the invocation ends there with that error: it is not
\* among the confirmed, it has written no link, the link of its author is
\* the one from before, and nothing it does later (no second fetch, no
\* further reaction collected) changes that.
C22_FailedRefetchAborts ==
    [][\A a \in Attempts :
          /\ pc'[a] = "err_check" =>
               /\ \A i \in 1..Len(confirmed') : confirmed'[i] # a
               /\ WritesBy(a)' = 0
               /\ saved'[author'[a]] = saved0'[author'[a]]
          /\ pc[a] = "err_check" =>
               /\ pc'[a] = "err_check"
               /\ nsig'[a] = nsig[a]]_vars

\* C22 witness: the invocation ended with the fetch error after a reaction,
\* although the account's latest play was the challenge.
C22_Witness ==
    /\ pc[1] = "err_check"
    /\ nsig[1] >= 1
    /\ check(cand[1], challenge[1].map)
    /\ saved = saved0

(***************************************************************************)
(* The mode and mods load_beatmap resolves: claim C23.                     *)
(***************************************************************************)
\* The modes the tags of the new site name.
TagModes == [osu |-> "Std", taiko |-> "Taiko", fruits |-> "Catch", mania |-> "Mania"]

\* The mode a link asks for: the one its tag names, or else the beatmap's.
ExpectedMode(caps, beatmap) ==
    IF caps.mode \in DOMAIN TagModes THEN TagModes[caps.mode] ELSE NativeMode(beatmap.beatmap_id)

\* C23: a beatmap resolved from a replied-to message has the link's id and
\* is paired with the mode the link's tag names when the tag is there and
\* names one, and with the beatmap's own mode otherwise, whether or not the
\* link has a mods token; the call returns the link's mods when the token
\* is there and names some, and none otherwise, whether or not the link has
\* a mode tag; the pair stored in the channel's slot is that same pair; and
\* a beatmap taken from the slot is returned with no mods.
C23_ResolvedModeAndMods ==
    [][\A t \in LbTasks :
          /\ Puts(t) =>
               last_beatmaps'[lbch[t]] \in
                   {last_beatmaps[lbch[t]],
                    BeatmapWithMode(lbbm[t], ExpectedMode(lbcaps[t], lbbm[t]))}
          /\ lbpc'[t] = "ret" /\ lbres'[t].from = "reply" =>
               /\ lbres'[t].bm = BeatmapWithMode(lbbm'[t], ExpectedMode(lbcaps'[t], lbbm'[t]))
               /\ lbbm'[t].beatmap_id = lbcaps'[t].id
               /\ lbres'[t].mods = IF lbcaps'[t].mods = "HD" THEN "HD" ELSE "none"
          /\ lbpc'[t] = "ret" /\ lbres'[t].from = "cache" =>
               lbres'[t].mods = "none"]_vars

\* C23 witness: a reply to a link with a mode tag and no mods token was
\* resolved to a beatmap of another native mode, and the slot holds the pair
\* with the tag's mode.
C23_Witness ==
    /\ lbpc[1] = "ret"
    /\ lbres[1].from = "reply"
    /\ lbcaps[1].mode = "taiko"
    /\ lbcaps[1].mods = "none"
    /\ lbres[1].bm.mode = "Taiko"
    /\ lbres[1].bm.bm.mode # "Taiko"
    /\ lbres[1].mods = "none"
    /\ last_beatmaps[lbch[1]] = lbres[1].bm

(***************************************************************************)
(* `recent` and `top`: claims C24 and C25.                                 *)
(***************************************************************************)
\* The invocation of `recent` or `top` makes its last step after showing a
\* play.
ShownThenEnds == shpc = "save" /\ shpc' = "ended"

\* The shown play's beatmap with the requested mode.
ShownPair ==
    BeatmapWithMode([beatmap_id |-> shshown.beatmap_id,
                     mode |-> NativeMode(shshown.beatmap_id)], shmode)

\* C24 as stated: after every successful resolution and display of a play
\* by `recent #n` or `top #n`, the channel's slot holds the shown play's
\* beatmap with the requested mode.
C24_ShownPlayIsStored ==
    [][ShownThenEnds => last_beatmaps'[shch] = ShownPair]_vars

\* C24, amended: `recent #n` and `top #n` overwrite the channel's slot with
\* (the shown play's beatmap, the requested mode) after showing the play,
\* unless the write to the store fails: then the command ends with that
\* error and the slot is unchanged.  No other channel's slot changes, and an
\* invocation that fails earlier or runs in list mode changes no slot.
C24_ShownPlayIsStoredUnlessStoreFails ==
    [][/\ ShownThenEnds /\ shend' # "err_store" =>
            /\ shend' = "ok"
            /\ last_beatmaps'[shch] = ShownPair
            /\ \A ch \in Channels \ {shch} : last_beatmaps'[ch] = last_beatmaps[ch]
       /\ ShownThenEnds /\ shend' = "err_store" => last_beatmaps' = last_beatmaps
       /\ ~ShownThenEnds => last_beatmaps' = last_beatmaps
       /\ shpc' = "ended" /\ (shnth' = All \/ shend' # "ok") =>
            last_beatmaps' = last_beatmaps]_vars

\* C24 witness: a `#n` command ended well for a play whose beatmap has
\* another native mode than the requested one, and the channel's slot holds
\* the beatmap with the requested mode; the other channel's slot holds what
\* an earlier command stored.
C24_Witness ==
    /\ shpc = "ended"
    /\ shend = "ok"
    /\ shnth # All
    /\ last_beatmaps[shch] = ShownPair
    /\ ShownPair.mode # ShownPair.bm.mode
    /\ \E ch \in Channels \ {shch} :
         last_beatmaps[ch] \notin {NoEntry, ShownPair}

\* C25: `top #n` shows the user's n-th best score labelled with rank n and
\* `recent #n` the n-th most recent play; a user with fewer than n plays in
\* the mode gets "No such play" and no play is shown.
C25_NthPlayOrNoSuchPlay ==
    shnth # All /\ shpc \in {"save", "ended"} =>
        LET plays == remote_plays(shcmd, shacct, shmode)
        IN  /\ shshown # NoShown =>
                 /\ shnth <= Len(plays)
                 /\ shshown.beatmap_id = plays[shnth].beatmap_id
                 /\ shcmd = "top" => shshown.rank = shnth
            /\ shnth > Len(plays) /\ shend \in {"ok", "no_such_play", "err_store"} =>
                 shend = "no_such_play"

(***************************************************************************)
(* The snapshot `check` stores: claim C26.                                 *)
(***************************************************************************)
\* The performance value scores are compared by.
Perf(sc) == IF sc.pp = NoPP THEN -1 ELSE sc.pp[1]

\* C26: `check` changes env.user_bests only for a target that is a chat
\* identity (a mention, or the invoker when no user is given) and with at
\* least one score left after filtering; then only the snapshot of that
\* identity in the resolved beatmap's mode changes, it holds the scores of
\* the remote answer whose mods contain the filter mods and no other, by
\* falling performance value, scores of equal value in the order of the
\* remote answer.  For a raw username or an empty result nothing changes.
C26_SnapshotOnlyForKnownIdentity ==
    [][user_bests' # user_bests =>
         LET owner == IF ckarg.kind = "tagged" THEN ckarg.identity ELSE ckauthor
             answer == beatmap_scores(ckacct, ckbm.bm.beatmap_id, ckbm.mode)
             kept == {i \in 1..Len(answer) : ckfilter \subseteq answer[i].mods}
             snap == user_bests'[<<owner, ckbm.mode>>]
         IN  /\ ckarg.kind \in {"tagged", "none"}
             /\ ckbm # NoEntry
             /\ kept # {}
             /\ \A k \in DOMAIN user_bests :
                  k # <<owner, ckbm.mode>> => user_bests'[k] = user_bests[k]
             /\ Len(snap) = Cardinality(kept)
             /\ {snap[i] : i \in 1..Len(snap)} = {answer[i] : i \in kept}
             /\ \A i, j \in 1..Len(snap) : i < j =>
                  \/ Perf(snap[i]) > Perf(snap[j])
                  \/ Perf(snap[i]) = Perf(snap[j]) /\ snap[i].ord < snap[j].ord]_vars

\* C26 witness: `check` for a mentioned identity other than the invoker, with
\* a filter that drops a score, stored a snapshot of three scores, two of
\* them of equal performance value, under the mentioned identity, and the
\* invoker has no snapshot.
C26_Witness ==
    /\ ckpc = "display"
    /\ ckarg.kind = "tagged"
    /\ ckarg.identity # ckauthor
    /\ ckfilter = {"HD"}
    /\ user_bests[<<ckarg.identity, ckbm.mode>>] = ckscores
    /\ Len(ckscores) = 3
    /\ \E i, j \in 1..Len(ckscores) : i # j /\ Perf(ckscores[i]) = Perf(ckscores[j])
    /\ \A m \in Modes : user_bests[<<ckauthor, m>>] = NoSnapshot

====
